------------------------- MODULE MaraRecurse_proofs -------------------------
(***************************************************************************)
(* Proofs about MaraRecurse for any number of clients and threads, any     *)
(* limits, any cache and whatever the servers say.  The first part is what *)
(* the calls of recurse_call that wait for each other are about, and so    *)
(* that a client gets one reply at most, and none only when a limit was    *)
(* exceeded.  The second part is what the hash and the fila are to each    *)
(* other, and how large the cache can get.                                 *)
(***************************************************************************)
EXTENDS MaraRecurse, FilaOrder_proofs

-----------------------------------------------------------------------------
(***************************************************************************)
(* Stacks of calls.  Only the lowest call answers the client; those above  *)
(* it look up addresses, MX records and PTR records.  A call that failed   *)
(* went over a limit.                                                      *)
(***************************************************************************)
FrameFields == {"name", "type", "sent", "level", "want", "at", "zone", "plan",
                "server", "asked", "got"}

\* What the call at i may look up for a client that asked for type q.  It is
\* CNAME while the target of a CNAME is looked up, and after that failed.
Types(q, i) == IF i = 1 THEN {q, "CNAME"} ELSE {"A", "MX", "PTR", "CNAME"}

\* f is a frame that may be at i in a stack of client c.
IsFrame(c, q, i, f, over) ==
  /\ DOMAIN f = FrameFields
  /\ IF i = 1 THEN f.want = "client" ELSE f.want \in {"ip", "ptr"}
  /\ f.type \in Types(q, i)
  /\ f.at \in {"any_a", "any_mx"} => f.type = "ANY"
  /\ f.at = "chase" => f.asked \in Types(q, i)
  /\ DOMAIN f.got = {"ok", "value"}
  /\ f.got.ok \/ c \in over

IsList(s) == \E S : s \in Seq(S)

IsStack(c, q, s, over) ==
  /\ IsList(s)
  /\ \A i \in 1..Len(s) : IsFrame(c, q, i, s[i], over)

LEMMA IsListLen == ASSUME NEW s, IsList(s) PROVE Len(s) \in Nat /\ (s # << >> => Len(s) > 0)
BY DEF IsList

LEMMA FrontOK ==
  ASSUME NEW S, NEW s \in Seq(S), s # << >>
  PROVE  /\ Front(s) \in Seq(S) /\ Len(Front(s)) = Len(s) - 1
         /\ \A i \in 1..(Len(s) - 1) : Front(s)[i] = s[i]
<1> DEFINE n == Len(s) - 1
<1>1. n \in Nat /\ \A i \in 1..n : s[i] \in S
  OBVIOUS
<1>2. Front(s) = SubSeq(s, 1, n)
  BY DEF Front
<1>3. 1 \in Int /\ n \in Int
  BY <1>1
<1> HIDE DEF n
<1>4. /\ SubSeq(s, 1, n) \in Seq(S)
      /\ Len(SubSeq(s, 1, n)) = IF 1 <= n THEN n - 1 + 1 ELSE 0
      /\ \A i \in 1..(n - 1 + 1) : SubSeq(s, 1, n)[i] = s[1 + i - 1]
  BY <1>1, <1>3, SubSeqProperties
<1>5. Len(Front(s)) = n
  BY <1>1, <1>2, <1>4
<1>6. ASSUME NEW i \in 1..n PROVE Front(s)[i] = s[i]
  <2>1. i \in 1..(n - 1 + 1) /\ 1 + i - 1 = i
    BY <1>1
  <2> QED BY <1>2, <1>4, <2>1
<1> QED BY <1>2, <1>4, <1>5, <1>6 DEF n

LEMMA FrontItems ==
  ASSUME NEW s, IsList(s), s # << >>
  PROVE  /\ IsList(Front(s)) /\ Len(Front(s)) = Len(s) - 1
         /\ \A i \in 1..(Len(s) - 1) : Front(s)[i] = s[i]
<1>1. PICK S : s \in Seq(S)
  BY DEF IsList
<1>2. /\ Front(s) \in Seq(S) /\ Len(Front(s)) = Len(s) - 1
      /\ \A i \in 1..(Len(s) - 1) : Front(s)[i] = s[i]
  BY <1>1, FrontOK
<1> QED BY <1>2 DEF IsList

LEMMA ThenOne ==
  ASSUME NEW s, IsList(s), NEW f
  PROVE  /\ IsList(s \o <<f>>) /\ Len(s \o <<f>>) = Len(s) + 1
         /\ \A i \in 1..Len(s) : (s \o <<f>>)[i] = s[i]
         /\ (s \o <<f>>)[Len(s) + 1] = f
<1>1. PICK S : s \in Seq(S)
  BY DEF IsList
<1>2. s \in Seq(S \union {f}) /\ <<f>> \in Seq(S \union {f})
  BY <1>1
<1>3. s \o <<f>> \in Seq(S \union {f})
  BY <1>2
<1> QED BY <1>2, <1>3 DEF IsList

LEMMA ThenTwo ==
  ASSUME NEW s, IsList(s), NEW f, NEW g
  PROVE  /\ IsList(s \o <<f, g>>) /\ Len(s \o <<f, g>>) = Len(s) + 2
         /\ \A i \in 1..Len(s) : (s \o <<f, g>>)[i] = s[i]
         /\ (s \o <<f, g>>)[Len(s) + 1] = f
         /\ (s \o <<f, g>>)[Len(s) + 2] = g
<1>1. PICK S : s \in Seq(S)
  BY DEF IsList
<1>2. s \in Seq(S \union {f, g}) /\ <<f, g>> \in Seq(S \union {f, g})
  BY <1>1
<1>3. s \o <<f, g>> \in Seq(S \union {f, g})
  BY <1>2
<1> QED BY <1>2, <1>3 DEF IsList

\* The call on top goes on.
LEMMA WithStack ==
  ASSUME NEW c, NEW q, NEW s, NEW over, IsStack(c, q, s, over), s # << >>,
         NEW g, IsFrame(c, q, Len(s), g, over)
  PROVE  IsStack(c, q, With(s, g), over) /\ With(s, g) # << >>
<1> DEFINE t == With(s, g)
<1>1. IsList(Front(s)) /\ Len(Front(s)) = Len(s) - 1 /\ Len(s) \in Nat
  BY FrontItems, IsListLen DEF IsStack
<1>2. /\ IsList(t) /\ Len(t) = Len(s) /\ t[Len(s)] = g
      /\ \A i \in 1..(Len(s) - 1) : t[i] = s[i]
  <2>1. t = Front(s) \o <<g>>
    BY DEF With
  <2>2. \A i \in 1..(Len(s) - 1) : Front(s)[i] = s[i]
    BY FrontItems DEF IsStack
  <2> HIDE DEF t
  <2>3. /\ IsList(t) /\ Len(t) = Len(Front(s)) + 1
        /\ \A i \in 1..Len(Front(s)) : t[i] = Front(s)[i]
        /\ t[Len(Front(s)) + 1] = g
    BY <1>1, <2>1, ThenOne
  <2> QED BY <1>1, <2>2, <2>3
<1>3. Len(s) > 0
  BY IsListLen DEF IsStack
<1> HIDE DEF t
<1>4. ASSUME NEW i \in 1..Len(t) PROVE IsFrame(c, q, i, t[i], over)
  <2>1. CASE i = Len(s)
    BY <1>2, <2>1
  <2>2. CASE i # Len(s)
    <3>1. i \in 1..(Len(s) - 1) /\ i \in 1..Len(s)
      BY <1>1, <1>2, <2>2
    <3> QED BY <1>2, <3>1 DEF IsStack
  <2> QED BY <2>1, <2>2
<1>5. t # << >>
  BY <1>2, <1>3
<1> QED BY <1>2, <1>4, <1>5 DEF IsStack, t

\* The call on top calls another one.
LEMMA CallStack ==
  ASSUME NEW c, NEW q, NEW s, NEW over, IsStack(c, q, s, over), s # << >>,
         NEW g, IsFrame(c, q, Len(s), g, over),
         NEW h, \A i \in Nat \ {0, 1} : IsFrame(c, q, i, h, over)
  PROVE  IsStack(c, q, Call(s, g, h), over) /\ Call(s, g, h) # << >>
<1> DEFINE t == Call(s, g, h)
<1>1. IsList(Front(s)) /\ Len(Front(s)) = Len(s) - 1 /\ Len(s) \in Nat
  BY FrontItems, IsListLen DEF IsStack
<1>2. /\ IsList(t) /\ Len(t) = Len(s) + 1 /\ t[Len(s)] = g /\ t[Len(s) + 1] = h
      /\ \A i \in 1..(Len(s) - 1) : t[i] = s[i]
  <2>1. t = Front(s) \o <<g, h>>
    BY DEF Call
  <2>2. \A i \in 1..(Len(s) - 1) : Front(s)[i] = s[i]
    BY FrontItems DEF IsStack
  <2> HIDE DEF t
  <2> DEFINE u == Front(s)
  <2>3. /\ IsList(t) /\ Len(t) = Len(u) + 2
        /\ \A i \in 1..Len(u) : t[i] = u[i]
        /\ t[Len(u) + 1] = g /\ t[Len(u) + 2] = h
    <3>1. IsList(u) /\ t = u \o <<g, h>>
      BY <1>1, <2>1
    <3> HIDE DEF u
    <3> QED BY <3>1, ThenTwo
  <2>4. Len(Front(s)) + 1 = Len(s) /\ Len(Front(s)) + 2 = Len(s) + 1
    BY <1>1
  <2> QED BY <1>1, <2>2, <2>3, <2>4
<1>3. Len(s) > 0
  BY IsListLen DEF IsStack
<1> HIDE DEF t
<1>4. ASSUME NEW i \in 1..Len(t) PROVE IsFrame(c, q, i, t[i], over)
  <2>1. CASE i = Len(s)
    BY <1>2, <2>1
  <2>2. CASE i = Len(s) + 1
    <3>1. i \in Nat \ {0, 1}
      BY <1>1, <1>3, <2>2
    <3> QED BY <1>2, <2>2, <3>1
  <2>3. CASE i # Len(s) /\ i # Len(s) + 1
    <3>1. i \in 1..(Len(s) - 1) /\ i \in 1..Len(s)
      BY <1>1, <1>2, <2>3
    <3> QED BY <1>2, <3>1 DEF IsStack
  <2> QED BY <2>1, <2>2, <2>3
<1>5. t # << >>
  BY <1>1, <1>2
<1> QED BY <1>2, <1>4, <1>5 DEF IsStack, t

\* The call on top returns to the one below it.
LEMMA ReturnedStack ==
  ASSUME NEW c, NEW q, NEW s, NEW over, IsStack(c, q, s, over), s # << >>,
         NEW ok, NEW value, ok \/ c \in over
  PROVE  /\ IsStack(c, q, Returned(s, ok, value), over)
         /\ Returned(s, ok, value) = << >> <=> Len(s) = 1
<1> DEFINE t == Returned(s, ok, value)
           n == Len(s) - 1
<1>1. Len(s) \in Nat /\ Len(s) > 0
  BY IsListLen DEF IsStack
<1>2. CASE Len(s) = 1
  <2>1. t = << >>
    BY <1>2 DEF Returned
  <2>2. << >> \in Seq({}) /\ Len(<< >>) = 0
    OBVIOUS
  <2>3. IsStack(c, q, << >>, over)
    BY <2>2 DEF IsStack, IsList
  <2> QED BY <1>2, <2>1, <2>3
<1>3. CASE Len(s) # 1
  <2> DEFINE f == [s[n] EXCEPT !.got = [ok |-> ok, value |-> value]]
  <2>1. t = [Front(s) EXCEPT ![n].got = [ok |-> ok, value |-> value]]
    BY <1>3 DEF Returned
  <2>2. PICK S : s \in Seq(S)
    BY DEF IsStack, IsList
  <2>3. /\ Front(s) \in Seq(S) /\ Len(Front(s)) = n
        /\ \A i \in 1..n : Front(s)[i] = s[i]
    BY <2>2, FrontOK
  <2>4. n \in 1..n /\ n \in Nat /\ n \in 1..Len(s)
    <3> HIDE DEF t, f
    <3> DEFINE m == Len(s)
    <3>1. m \in Nat /\ m > 0 /\ m # 1
      BY <1>1, <1>3
    <3> HIDE DEF m
    <3>2. m - 1 \in 1..(m - 1) /\ m - 1 \in Nat /\ m - 1 \in 1..m
      BY <3>1
    <3> QED BY <3>2 DEF m
  <2>5. t = [Front(s) EXCEPT ![n] = f]
    BY <2>1, <2>3, <2>4
  <2> HIDE DEF f, t, n
  <2>6. Front(s) \in Seq(S \union {f})
    BY <2>3
  <2>7. /\ t \in Seq(S \union {f}) /\ Len(t) = n
        /\ \A i \in 1..n : t[i] = IF i = n THEN f ELSE s[i]
    BY <2>3, <2>4, <2>5, <2>6
  <2>8. IsFrame(c, q, n, f, over)
    BY <2>4 DEF IsStack, IsFrame, FrameFields, f
  <2>9. ASSUME NEW i \in 1..Len(t) PROVE IsFrame(c, q, i, t[i], over)
    <3>1. i \in 1..Len(s) /\ i \in 1..n
      BY <1>1, <2>7, <2>9 DEF n
    <3> QED BY <2>7, <2>8, <3>1 DEF IsStack
  <2>10. t # << >>
    BY <2>4, <2>7
  <2> QED BY <1>3, <2>7, <2>9, <2>10 DEF IsStack, IsList, t
<1> QED BY <1>2, <1>3

LEMMA MoreOver ==
  ASSUME NEW c, NEW q, NEW s, NEW over, NEW more, over \subseteq more,
         IsStack(c, q, s, over)
  PROVE  IsStack(c, q, s, more)
BY DEF IsStack, IsFrame

-----------------------------------------------------------------------------
(***************************************************************************)
(* The invariant.                                                          *)
(***************************************************************************)
States ==
  /\ DOMAIN thread = Client /\ DOMAIN reply = Client
  /\ \A c \in Client :
       /\ DOMAIN thread[c] = {"state", "stack", "query"}
       /\ thread[c].stack # << >> => thread[c].state = "recurses"

QueryType(c) == thread[c].query.type

Stacks == \A c \in Client : IsStack(c, QueryType(c), thread[c].stack, deep)

\* The main thread has a client to whom nothing has happened yet.
Launched == main # Free => main \in Client /\ thread[main].state = "none"

\* Why client c may be left without a reply.
MaySilent(c) == c \in deep \/ handle_noreply = 0 \/ QueryType(c) = "ANY"

\* A client has no reply until its thread ends.
Replies ==
  \A c \in Client :
    IF thread[c].state \in {"ends", "done"}
    THEN Len(reply[c]) <= 1 /\ (reply[c] = << >> => MaySilent(c))
    ELSE reply[c] = << >>

IInv == States /\ Stacks /\ Launched /\ Replies

\* What a thread does with its stack leaves the other clients alone.
LEMMA OthersStay ==
  ASSUME IInv, NEW c \in Client, thread[c].stack # << >>,
         NEW d, NEW s, Move(c, d, s)
  PROVE  /\ DOMAIN thread' = Client
         /\ \A b \in Client \ {c} : thread'[b] = thread[b]
         /\ DOMAIN thread'[c] = {"state", "stack", "query"}
         /\ thread'[c].stack = s /\ QueryType(c)' = QueryType(c)
         /\ thread[c].state = "recurses"
         /\ thread'[c].state = IF s = << >> THEN "ends" ELSE "recurses"
         /\ reply[c] = << >>
         /\ main' = main /\ main # c
<1>1. /\ DOMAIN thread = Client /\ DOMAIN thread[c] = {"state", "stack", "query"}
      /\ thread[c].state = "recurses"
  BY DEF IInv, States
<1>2. reply[c] = << >> /\ main # c
  BY <1>1, RecurseAssumption DEF IInv, Replies, Launched
<1>3. /\ thread' = [thread EXCEPT ![c].stack = s,
                                  ![c].state = IF s = << >> THEN "ends" ELSE @]
      /\ main' = main
  BY DEF Move
<1> QED BY <1>1, <1>2, <1>3 DEF QueryType

\* The thread goes on.
LEMMA MoveOK ==
  ASSUME IInv, NEW c \in Client, thread[c].stack # << >>,
         NEW d, NEW s, Move(c, d, s), s # << >>, Silent,
         IsStack(c, QueryType(c), s, deep)
  PROVE  IInv'
<1> USE OthersStay
<1>1. deep' = deep /\ reply' = reply
  BY DEF Silent
<1>2. States'
  BY <1>1 DEF IInv, States
<1>3. Stacks'
  BY <1>1 DEF IInv, Stacks, QueryType
<1>4. Launched'
  BY DEF IInv, Launched
<1>5. Replies'
  <2> SUFFICES ASSUME NEW b \in Client
               PROVE  IF thread'[b].state \in {"ends", "done"}
                      THEN /\ Len(reply'[b]) <= 1
                           /\ reply'[b] = << >> => MaySilent(b)'
                      ELSE reply'[b] = << >>
    BY DEF Replies
  <2>1. CASE b = c
    BY <1>1, <2>1
  <2>2. CASE b # c
    BY <1>1, <2>2 DEF IInv, Replies, MaySilent, QueryType
  <2> QED BY <2>1, <2>2
<1> QED BY <1>2, <1>3, <1>4, <1>5 DEF IInv

\* A call returns, in silence or with a reply to the client.
Told(c) == \E what : Send(c, what)

LEMMA ReturnOK ==
  ASSUME IInv, NEW c \in Client, thread[c].stack # << >>,
         NEW d, NEW ok, NEW value, Move(c, d, Returned(thread[c].stack, ok, value)),
         deep \subseteq deep', deep' \subseteq deep \union {c}, ok \/ c \in deep',
         \/ /\ reply' = reply
            /\ Len(thread[c].stack) = 1 => MaySilent(c)'
         \/ Len(thread[c].stack) = 1 /\ Told(c)
  PROVE  IInv'
<1> DEFINE s == Returned(thread[c].stack, ok, value)
<1>1. /\ DOMAIN thread' = Client
      /\ \A b \in Client \ {c} : thread'[b] = thread[b]
      /\ DOMAIN thread'[c] = {"state", "stack", "query"}
      /\ thread'[c].stack = s /\ QueryType(c)' = QueryType(c)
      /\ thread'[c].state = IF s = << >> THEN "ends" ELSE "recurses"
      /\ reply[c] = << >>
      /\ main' = main /\ main # c
  BY OthersStay
<1>2. IsStack(c, QueryType(c), s, deep') /\ (s = << >> <=> Len(thread[c].stack) = 1)
  <2>1. IsStack(c, QueryType(c), thread[c].stack, deep')
    BY MoreOver DEF IInv, Stacks
  <2> QED BY <2>1, ReturnedStack
<1> HIDE DEF s
<1>3. /\ DOMAIN reply' = Client
      /\ \A b \in Client \ {c} : reply'[b] = reply[b]
      /\ \/ reply'[c] = << >> /\ (s = << >> => MaySilent(c)')
         \/ Len(reply'[c]) = 1 /\ reply'[c] # << >> /\ s = << >>
  <2>1. DOMAIN reply = Client
    BY DEF IInv, States
  <2>2. CASE reply' = reply /\ (Len(thread[c].stack) = 1 => MaySilent(c)')
    BY <1>1, <1>2, <2>1, <2>2
  <2>3. CASE Len(thread[c].stack) = 1 /\ Told(c)
    <3>1. PICK what : reply' = [reply EXCEPT ![c] = Append(@, what)]
      BY <2>3 DEF Told, Send
    <3>2. reply'[c] = <<what>>
      BY <1>1, <2>1, <3>1
    <3> QED BY <1>2, <2>1, <2>3, <3>1, <3>2
  <2> QED BY <2>2, <2>3
<1>4. States'
  BY <1>1, <1>3 DEF IInv, States
<1>5. Stacks'
  <2> SUFFICES ASSUME NEW b \in Client
               PROVE  IsStack(b, QueryType(b)', thread'[b].stack, deep')
    BY DEF Stacks
  <2>1. CASE b = c
    BY <1>1, <1>2, <2>1
  <2>2. CASE b # c
    <3>1. IsStack(b, QueryType(b), thread[b].stack, deep')
      BY MoreOver DEF IInv, Stacks
    <3> QED BY <1>1, <2>2, <3>1 DEF QueryType
  <2> QED BY <2>1, <2>2
<1>6. Launched'
  BY <1>1 DEF IInv, Launched
<1>7. Replies'
  <2> SUFFICES ASSUME NEW b \in Client
               PROVE  IF thread'[b].state \in {"ends", "done"}
                      THEN /\ Len(reply'[b]) <= 1
                           /\ reply'[b] = << >> => MaySilent(b)'
                      ELSE reply'[b] = << >>
    BY DEF Replies
  <2>1. CASE b = c
    <3>1. CASE s = << >>
      <4>1. Len(reply'[c]) <= 1 /\ (reply'[c] = << >> => MaySilent(c)')
        <5>1. CASE reply'[c] = << >> /\ MaySilent(c)'
          <6>1. Len(reply'[c]) = 0
            BY <5>1
          <6> QED BY <5>1, <6>1
        <5>2. CASE Len(reply'[c]) = 1 /\ reply'[c] # << >>
          BY <5>2
        <5> QED BY <1>3, <3>1, <5>1, <5>2
      <4> QED BY <1>1, <2>1, <3>1, <4>1
    <3>2. CASE s # << >>
      BY <1>1, <1>3, <2>1, <3>2
    <3> QED BY <3>1, <3>2
  <2>2. CASE b # c
    BY <1>1, <1>3, <2>2 DEF IInv, Replies, MaySilent, QueryType
  <2> QED BY <2>1, <2>2
<1> QED BY <1>4, <1>5, <1>6, <1>7 DEF IInv

-----------------------------------------------------------------------------
(***************************************************************************)
(* The steps of a thread.                                                  *)
(***************************************************************************)
LEMMA TopFrame ==
  ASSUME IInv, NEW c \in Client, thread[c].stack # << >>
  PROVE  /\ Len(thread[c].stack) \in Nat /\ Len(thread[c].stack) >= 1
         /\ IsFrame(c, QueryType(c), Len(thread[c].stack), Top(c), deep)
<1>1. IsStack(c, QueryType(c), thread[c].stack, deep)
  BY DEF IInv, Stacks
<1>2. Len(thread[c].stack) \in Nat /\ Len(thread[c].stack) > 0
  BY <1>1, IsListLen DEF IsStack
<1>3. Len(thread[c].stack) \in 1..Len(thread[c].stack)
  BY <1>2
<1>4. Top(c) = thread[c].stack[Len(thread[c].stack)]
  BY DEF Top, Last
<1> QED BY <1>1, <1>2, <1>3, <1>4 DEF IsStack

\* The call on top becomes g.
LEMMA GoesOn ==
  ASSUME IInv, NEW c \in Client, thread[c].stack # << >>, NEW d, NEW g,
         IsFrame(c, QueryType(c), Len(thread[c].stack), g, deep),
         Move(c, d, With(thread[c].stack, g)), Silent
  PROVE  IInv'
<1> DEFINE s == With(thread[c].stack, g)
<1>1. IsStack(c, QueryType(c), s, deep) /\ s # << >>
  BY WithStack DEF IInv, Stacks
<1>2. Move(c, d, s)
  OBVIOUS
<1> HIDE DEF s
<1> QED BY <1>1, <1>2, MoveOK

\* It becomes g, and calls h.
LEMMA Calls ==
  ASSUME IInv, NEW c \in Client, thread[c].stack # << >>, NEW d, NEW g, NEW h,
         IsFrame(c, QueryType(c), Len(thread[c].stack), g, deep),
         \A i \in Nat \ {0, 1} : IsFrame(c, QueryType(c), i, h, deep),
         Move(c, d, Call(thread[c].stack, g, h)), Silent
  PROVE  IInv'
<1> DEFINE s == Call(thread[c].stack, g, h)
<1>1. IsStack(c, QueryType(c), s, deep) /\ s # << >>
  BY CallStack DEF IInv, Stacks
<1>2. Move(c, d, s)
  OBVIOUS
<1> HIDE DEF s
<1> QED BY <1>1, <1>2, MoveOK

\* A call that begins.
LEMMA NewFrame ==
  ASSUME NEW c, NEW q, NEW over, NEW i \in Nat, NEW name, NEW type, NEW sent,
         NEW level, NEW want, type \in Types(q, i),
         IF i = 1 THEN want = "client" ELSE want \in {"ip", "ptr"}
  PROVE  IsFrame(c, q, i, Frame(name, type, sent, level, want), over)
BY DEF IsFrame, Frame, FrameFields, Nothing

LEMMA AgainFrame ==
  ASSUME NEW c, NEW q, NEW over, NEW i \in Nat, NEW f, IsFrame(c, q, i, f, over)
  PROVE  IsFrame(c, q, i, Again(f), over)
BY NewFrame DEF IsFrame, Again

LEMMA OnwardFrame ==
  ASSUME NEW c, NEW q, NEW over, NEW i \in Nat, NEW f, IsFrame(c, q, i, f, over)
  PROVE  IsFrame(c, q, i, Onward(f), over)
BY DEF IsFrame, FrameFields, Onward, Nothing

LEMMA TooDeepOK == ASSUME IInv, NEW c \in Client, TooDeep(c) PROVE IInv'
<1>1. /\ thread[c].stack # << >>
      /\ Move(c, db, Returned(thread[c].stack, FALSE, NoIp))
      /\ deep' = deep \union {c} /\ reply' = reply
  BY DEF TooDeep, Runs
<1>2. MaySilent(c)'
  BY <1>1 DEF MaySilent
<1> QED BY <1>1, <1>2, ReturnOK

LEMMA AnyAsksOK ==
  ASSUME IInv, NEW c \in Client, AnyA(c) \/ AnyMx(c) PROVE IInv'
<1>1. PICK at \in {"enter", "any_a"}, type \in {"A", "MX"},
           then \in {"any_a", "any_mx"} : AnyAsks(c, at, type, then)
  BY DEF AnyA, AnyMx
<1> DEFINE f == Top(c)
           g == [f EXCEPT !.at = then]
           h == Frame(f.name, type, f.sent + 1, f.level, "ip")
<1>2. /\ thread[c].stack # << >> /\ f.at = at /\ f.got.ok
      /\ at = "enter" => f.type = "ANY"
      /\ Move(c, db, Call(thread[c].stack, g, h)) /\ Silent
  BY <1>1 DEF AnyAsks, Runs
<1>3. Len(thread[c].stack) \in Nat
      /\ IsFrame(c, QueryType(c), Len(thread[c].stack), f, deep)
  BY <1>2, TopFrame
<1> HIDE DEF f
<1>4. IsFrame(c, QueryType(c), Len(thread[c].stack), g, deep)
  BY <1>2, <1>3 DEF IsFrame, FrameFields
<1>5. \A i \in Nat \ {0, 1} : IsFrame(c, QueryType(c), i, h, deep)
  BY NewFrame DEF Types
<1> HIDE DEF g, h
<1> QED BY <1>2, <1>4, <1>5, Calls

\* Only the lowest call can be one for ANY.
LEMMA AnyIsLowest ==
  ASSUME IInv, NEW c \in Client, thread[c].stack # << >>,
         Top(c).at \in {"any_a", "any_mx"}
  PROVE  Len(thread[c].stack) = 1 /\ QueryType(c) = "ANY"
BY TopFrame DEF IsFrame, Types

LEMMA AnyEndsOK == ASSUME IInv, NEW c \in Client, AnyEnds(c) PROVE IInv'
<1>1. thread[c].stack # << >> /\ Top(c).at = "any_mx"
  BY DEF AnyEnds, Runs
<1>2. Len(thread[c].stack) = 1 /\ QueryType(c) = "ANY"
  BY <1>1, AnyIsLowest
<1>3. \E d : Move(c, d, Returned(thread[c].stack, TRUE, NoIp))
  BY DEF AnyEnds
<1>4. Silent \/ Told(c)
  BY DEF AnyEnds, Told
<1>5. PICK d : Move(c, d, Returned(thread[c].stack, TRUE, NoIp))
  BY <1>3
<1>6. deep' = deep
  BY <1>4 DEF Silent, Told, Send
<1>7. QueryType(c)' = QueryType(c)
  BY <1>1, <1>5, OthersStay
<1> QED BY <1>1, <1>2, <1>4, <1>5, <1>6, <1>7, ReturnOK DEF Silent, MaySilent

LEMMA AnyFailsOK == ASSUME IInv, NEW c \in Client, AnyFails(c) PROVE IInv'
<1>1. /\ thread[c].stack # << >> /\ ~Top(c).got.ok /\ Silent
      /\ Move(c, db, Returned(thread[c].stack, FALSE, NoIp))
  BY DEF AnyFails, Runs
<1>2. c \in deep /\ deep' = deep /\ reply' = reply
  BY <1>1, TopFrame DEF IsFrame, Silent
<1>3. MaySilent(c)'
  BY <1>2 DEF MaySilent
<1> QED BY <1>1, <1>2, <1>3, ReturnOK

\* The call on top, which has it, tells the client, or there is no need to.
LEMMA UnansweredOK ==
  ASSUME IInv, NEW c \in Client, thread[c].stack # << >>, NEW value,
         Unanswered(c, value)
  PROVE  IInv'
<1>1. Move(c, db, Returned(thread[c].stack, TRUE, value))
  BY DEF Unanswered
<1>2. Len(thread[c].stack) = 1 <=> Top(c).want = "client"
  BY TopFrame DEF IsFrame
<1>3. CASE Top(c).want = "client" /\ handle_noreply # 0
  <2>1. Told(c)
    BY <1>3 DEF Unanswered, Told
  <2>2. deep' = deep
    BY <2>1 DEF Told, Send
  <2> QED BY <1>1, <1>2, <1>3, <2>1, <2>2, ReturnOK
<1>4. CASE ~(Top(c).want = "client" /\ handle_noreply # 0)
  <2>1. Silent
    BY <1>4 DEF Unanswered
  <2>2. reply' = reply /\ deep' = deep
    BY <2>1 DEF Silent
  <2>3. Len(thread[c].stack) = 1 => MaySilent(c)'
    BY <1>2, <1>4 DEF MaySilent
  <2> QED BY <1>1, <2>2, <2>3, ReturnOK
<1> QED BY <1>3, <1>4

LEMMA FromCacheOK == ASSUME IInv, NEW c \in Client, FromCache(c) PROVE IInv'
<1> DEFINE f == Top(c)
           n == Len(thread[c].stack)
<1>1. thread[c].stack # << >>
  BY DEF FromCache, Runs
<1>2. n \in Nat /\ n >= 1 /\ IsFrame(c, QueryType(c), n, f, deep)
  BY <1>1, TopFrame
<1>3. n = 1 <=> f.want = "client"
  BY <1>2 DEF IsFrame
<1>4. PICK key \in Hits(f) \union Cnames(f) :
        \/ /\ Dead(db.hash[key], key)
           /\ Move(c, Unlink(MoveToTop(db, key), key),
                   With(thread[c].stack, Again(f)))
           /\ Silent
        \/ ~Dead(db.hash[key], key) /\ GiveClient(c, key)
        \/ /\ ~Dead(db.hash[key], key)
           /\ GiveCaller(c, key, key \in Cnames(f) /\ f.type = "A")
  BY DEF FromCache
<1>5. CASE \E d : Move(c, d, With(thread[c].stack, Again(f))) /\ Silent
  <2>1. IsFrame(c, QueryType(c), n, Again(f), deep)
    <3> HIDE DEF n, f
    <3> QED BY <1>2, AgainFrame
  <2> DEFINE g == Again(f)
  <2>2. PICK d : Move(c, d, With(thread[c].stack, g)) /\ Silent
    BY <1>5
  <2> HIDE DEF g, f
  <2> QED BY <1>1, <2>1, <2>2, GoesOn DEF g
<1>6. CASE GiveClient(c, key)
  <2>1. PICK d : Move(c, d, Returned(thread[c].stack, TRUE, NoIp))
    BY <1>6 DEF GiveClient
  <2>2. Told(c) /\ deep' = deep
    BY <1>6 DEF GiveClient, Told, Send
  <2>3. n = 1
    BY <1>3, <1>6 DEF GiveClient
  <2> QED BY <1>1, <2>1, <2>2, <2>3, ReturnOK
<1>7. CASE GiveCaller(c, key, key \in Cnames(f) /\ f.type = "A")
  <2>1. f.want # "client" /\ Silent
    BY <1>7 DEF GiveCaller
  <2>2. reply' = reply /\ deep' = deep
    BY <2>1 DEF Silent
  <2>3. \/ \E d, value : Move(c, d, Returned(thread[c].stack, TRUE, value))
        \/ \E d, found, sent, level :
             Move(c, d, With(thread[c].stack,
                  Frame(found, IF f.want = "ip" THEN "A" ELSE "PTR", sent, level,
                        f.want)))
    BY <1>7 DEF GiveCaller
  <2>4. CASE \E d, value : Move(c, d, Returned(thread[c].stack, TRUE, value))
    BY <1>1, <1>3, <2>1, <2>2, <2>4, ReturnOK
  <2>5. CASE \E d, found, sent, level :
               Move(c, d, With(thread[c].stack,
                    Frame(found, IF f.want = "ip" THEN "A" ELSE "PTR", sent,
                          level, f.want)))
    <3>1. PICK d, found, sent, level :
            Move(c, d, With(thread[c].stack,
                 Frame(found, IF f.want = "ip" THEN "A" ELSE "PTR", sent, level,
                       f.want)))
      BY <2>5
    <3> DEFINE type == IF f.want = "ip" THEN "A" ELSE "PTR"
               g == Frame(found, type, sent, level, f.want)
    <3>2. n # 1 /\ f.want \in {"ip", "ptr"}
      BY <1>2, <1>3, <2>1 DEF IsFrame
    <3>3. type \in Types(QueryType(c), n)
      BY <3>2 DEF Types
    <3>4. Move(c, d, With(thread[c].stack, g))
      BY <3>1
    <3> HIDE DEF type, f
    <3>5. IsFrame(c, QueryType(c), n, g, deep)
      <4> HIDE DEF n
      <4> QED BY <1>2, <3>2, <3>3, NewFrame
    <3> HIDE DEF g
    <3> QED BY <1>1, <2>1, <3>4, <3>5, GoesOn
  <2> QED BY <2>3, <2>4, <2>5
<1> QED BY <1>4, <1>5, <1>6, <1>7

\* The call on top moves to another place of recurse_call, or begins again.
LEMMA MovesOnTop ==
  ASSUME IInv, NEW c \in Client, thread[c].stack # << >>, NEW d, NEW g,
         Move(c, d, With(thread[c].stack, g)), Silent,
         \/ g = Again(Top(c))
         \/ g = Onward(Top(c))
         \/ g = Onward([Top(c) EXCEPT !.got = Nothing])
         \/ g = Onward([Top(c) EXCEPT !.type = "CNAME"])
         \/ \E zone, plan :
              g = [Top(c) EXCEPT !.at = "ask", !.zone = zone, !.plan = plan]
         \/ \E ip : g = [Top(c) EXCEPT !.at = "waiting", !.server = ip]
         \/ \E ip : g = [[Top(c) EXCEPT !.got = Nothing]
                           EXCEPT !.at = "waiting", !.server = ip]
         \/ Top(c).at = "chase" /\ g = Again([Top(c) EXCEPT !.type = Top(c).asked])
  PROVE  IInv'
<1> DEFINE f == Top(c)
           n == Len(thread[c].stack)
<1>1. n \in Nat /\ n >= 1 /\ IsFrame(c, QueryType(c), n, f, deep)
  BY TopFrame
<1>2. \/ g = Again(f)
      \/ g = Onward(f)
      \/ g = Onward([f EXCEPT !.got = Nothing])
      \/ g = Onward([f EXCEPT !.type = "CNAME"])
      \/ \E zone, plan : g = [f EXCEPT !.at = "ask", !.zone = zone, !.plan = plan]
      \/ \E ip : g = [f EXCEPT !.at = "waiting", !.server = ip]
      \/ \E ip : g = [[f EXCEPT !.got = Nothing]
                           EXCEPT !.at = "waiting", !.server = ip]
      \/ f.at = "chase" /\ g = Again([f EXCEPT !.type = f.asked])
  OBVIOUS
<1> HIDE DEF f, n
<1>3. IsFrame(c, QueryType(c), n, g, deep)
  <2>1. CASE g = Again(f) \/ g = Onward(f)
    BY <1>1, <2>1, AgainFrame, OnwardFrame
  <2>2. CASE g = Onward([f EXCEPT !.got = Nothing])
    BY <1>1, <2>2 DEF IsFrame, FrameFields, Onward, Nothing
  <2>3. CASE \E zone, plan :
               g = [f EXCEPT !.at = "ask", !.zone = zone, !.plan = plan]
    BY <1>1, <2>3 DEF IsFrame, FrameFields
  <2>4. CASE \E ip : g = [f EXCEPT !.at = "waiting", !.server = ip]
    BY <1>1, <2>4 DEF IsFrame, FrameFields
  <2>5. CASE \E ip : g = [[f EXCEPT !.got = Nothing]
                            EXCEPT !.at = "waiting", !.server = ip]
    <3> DEFINE h == [f EXCEPT !.got = Nothing]
    <3>1. IsFrame(c, QueryType(c), n, h, deep)
      BY <1>1 DEF IsFrame, FrameFields, Nothing
    <3>2. PICK ip : g = [h EXCEPT !.at = "waiting", !.server = ip]
      BY <2>5
    <3> HIDE DEF h
    <3> QED BY <3>1, <3>2 DEF IsFrame, FrameFields
  <2>6. CASE f.at = "chase" /\ g = Again([f EXCEPT !.type = f.asked])
    BY <1>1, <2>6 DEF IsFrame, FrameFields, Again, Frame, Nothing
  <2>7. CASE g = Onward([f EXCEPT !.type = "CNAME"])
    BY <1>1, <2>7 DEF IsFrame, FrameFields, Types, Onward, Nothing
  <2> QED BY <1>2, <2>1, <2>2, <2>3, <2>4, <2>5, <2>6, <2>7
<1> QED BY <1>3, GoesOn DEF n

LEMMA AskZoneOK == ASSUME IInv, NEW c \in Client, AskZone(c) PROVE IInv'
<1>1. thread[c].stack # << >> /\ Silent
  BY DEF AskZone, Misses, Runs
<1>2. \/ \E d : Move(c, d, With(thread[c].stack, Again(Top(c))))
      \/ \E d, zone, plan :
           Move(c, d, With(thread[c].stack,
                [Top(c) EXCEPT !.at = "ask", !.zone = zone, !.plan = plan]))
  BY DEF AskZone
<1> QED BY <1>1, <1>2, MovesOnTop

LEMMA AskServerOK ==
  ASSUME IInv, NEW c \in Client, thread[c].stack # << >>, NEW f, NEW ip,
         AskServer(c, f, ip), f = Top(c) \/ f = [Top(c) EXCEPT !.got = Nothing]
  PROVE  IInv'
<1>1. /\ Silent
      /\ \/ Move(c, db, With(thread[c].stack,
                             [f EXCEPT !.at = "waiting", !.server = ip]))
         \/ Move(c, db, With(thread[c].stack, Onward(f)))
  BY DEF AskServer
<1> QED BY <1>1, MovesOnTop

LEMMA AskAddressOK == ASSUME IInv, NEW c \in Client, AskAddress(c) PROVE IInv'
BY AskServerOK DEF AskAddress, Asking, Runs

LEMMA GluelessOK == ASSUME IInv, NEW c \in Client, Glueless(c) PROVE IInv'
<1>1. thread[c].stack # << >>
  BY DEF Glueless, Runs
<1>2. CASE AskServer(c, [Top(c) EXCEPT !.got = Nothing], Top(c).got.value)
  BY <1>1, <1>2, AskServerOK
<1>3. CASE /\ ~Top(c).got.ok /\ Silent
           /\ Move(c, db, Returned(thread[c].stack, FALSE, NoIp))
  <2>1. c \in deep /\ deep' = deep /\ reply' = reply
    BY <1>1, <1>3, TopFrame DEF IsFrame, Silent
  <2>2. MaySilent(c)'
    BY <2>1 DEF MaySilent
  <2> QED BY <1>1, <1>3, <2>1, <2>2, ReturnOK
<1> QED BY <1>2, <1>3 DEF Glueless

LEMMA AskGluelessOK == ASSUME IInv, NEW c \in Client, AskGlueless(c) PROVE IInv'
<1> DEFINE f == Top(c)
           g == [f EXCEPT !.at = "glueless"]
           h == Frame(Head(f.plan).name, "A", f.sent + 1, f.level + 1, "ip")
<1>1. /\ thread[c].stack # << >> /\ Silent
      /\ Move(c, db, Call(thread[c].stack, g, h))
  BY DEF AskGlueless, Asking, Runs
<1>2. /\ Len(thread[c].stack) \in Nat
      /\ IsFrame(c, QueryType(c), Len(thread[c].stack), f, deep)
  BY <1>1, TopFrame
<1> HIDE DEF f
<1>3. IsFrame(c, QueryType(c), Len(thread[c].stack), g, deep)
  BY <1>2 DEF IsFrame, FrameFields
<1>4. \A i \in Nat \ {0, 1} : IsFrame(c, QueryType(c), i, h, deep)
  BY NewFrame DEF Types
<1> HIDE DEF g, h
<1> QED BY <1>1, <1>3, <1>4, Calls

LEMMA ChasedOK == ASSUME IInv, NEW c \in Client, Chased(c) PROVE IInv'
<1>1. thread[c].stack # << >> /\ Top(c).at = "chase" /\ Silent
  BY DEF Chased, Runs
<1>2. \/ \E d : Move(c, d, With(thread[c].stack,
                                Again([Top(c) EXCEPT !.type = Top(c).asked])))
      \/ Move(c, db, With(thread[c].stack, Onward(Top(c))))
  BY DEF Chased
<1> QED BY <1>1, <1>2, MovesOnTop

LEMMA GetsCnameOK == ASSUME IInv, NEW c \in Client, GetsCname(c) PROVE IInv'
<1>1. thread[c].stack # << >> /\ Silent
  BY DEF GetsCname, Gets
<1> DEFINE f == Top(c)
           g == [f EXCEPT !.at = "chase", !.type = "CNAME", !.asked = f.type]
<1>2. \/ \E d : Move(c, d, With(thread[c].stack, Again(f)))
      \/ \E d, target :
           Move(c, d, Call(thread[c].stack, g,
                           IF Below(f.name) THEN Frame(target, "PTR", 0, 0, "ptr")
                           ELSE Frame(target, "A", 0, 0, "ip")))
  BY DEF GetsCname
<1>3. CASE \E d : Move(c, d, With(thread[c].stack, Again(f)))
  BY <1>1, <1>3, MovesOnTop
<1>4. CASE \E d, target :
             Move(c, d, Call(thread[c].stack, g,
                             IF Below(f.name)
                             THEN Frame(target, "PTR", 0, 0, "ptr")
                             ELSE Frame(target, "A", 0, 0, "ip")))
  <2>1. PICK d, target :
          Move(c, d, Call(thread[c].stack, g,
                          IF Below(f.name) THEN Frame(target, "PTR", 0, 0, "ptr")
                          ELSE Frame(target, "A", 0, 0, "ip")))
    BY <1>4
  <2> DEFINE h == IF Below(f.name) THEN Frame(target, "PTR", 0, 0, "ptr")
                  ELSE Frame(target, "A", 0, 0, "ip")
  <2>2. /\ Len(thread[c].stack) \in Nat
        /\ IsFrame(c, QueryType(c), Len(thread[c].stack), f, deep)
    BY <1>1, TopFrame
  <2> HIDE DEF f
  <2>3. IsFrame(c, QueryType(c), Len(thread[c].stack), g, deep)
    BY <2>2 DEF IsFrame, FrameFields, Types
  <2>4. ASSUME NEW i \in Nat \ {0, 1} PROVE IsFrame(c, QueryType(c), i, h, deep)
    <3>1. /\ IsFrame(c, QueryType(c), i, Frame(target, "PTR", 0, 0, "ptr"), deep)
          /\ IsFrame(c, QueryType(c), i, Frame(target, "A", 0, 0, "ip"), deep)
      BY NewFrame DEF Types
    <3> QED BY <3>1
  <2>5. Move(c, d, Call(thread[c].stack, g, h))
    BY <2>1
  <2> HIDE DEF g, h
  <2> QED BY <1>1, <2>3, <2>4, <2>5, Calls
<1> QED BY <1>2, <1>3, <1>4

LEMMA FromNetworkOK == ASSUME IInv, NEW c \in Client, FromNetwork(c) PROVE IInv'
<1>1. CASE \/ GetsNothing(c) \/ GetsOther(c) \/ GetsAnswer(c)
           \/ GetsNegative(c) \/ GetsReferral(c)
  <2>1. thread[c].stack # << >> /\ Silent
    BY <1>1 DEF GetsNothing, GetsOther, GetsAnswer, GetsNegative, GetsReferral, Gets
  <2>2. \E d : \/ Move(c, d, With(thread[c].stack, Again(Top(c))))
               \/ Move(c, d, With(thread[c].stack, Onward(Top(c))))
               \/ Move(c, d, With(thread[c].stack,
                                   Onward([Top(c) EXCEPT !.type = "CNAME"])))
    <3>1. CASE GetsNothing(c)
      BY <3>1 DEF GetsNothing
    <3>2. CASE GetsAnswer(c)
      BY <3>2 DEF GetsAnswer
    <3>3. CASE GetsNegative(c)
      BY <3>3 DEF GetsNegative
    <3>4. CASE GetsReferral(c)
      BY <3>4 DEF GetsReferral
    <3>5. CASE GetsOther(c)
      BY <3>5 DEF GetsOther
    <3> QED BY <1>1, <3>1, <3>2, <3>3, <3>4, <3>5
  <2> QED BY <2>1, <2>2, MovesOnTop
<1> QED BY <1>1, GetsCnameOK DEF FromNetwork

LEMMA RecurseOK == ASSUME IInv, NEW c \in Client, Recurse(c) PROVE IInv'
<1>1. CASE NoZone(c)
  BY <1>1, UnansweredOK DEF NoZone, Misses, Runs
<1>2. CASE NoReply(c)
  BY <1>2, UnansweredOK DEF NoReply, Runs
<1> QED BY <1>1, <1>2, TooDeepOK, AnyAsksOK, AnyEndsOK, AnyFailsOK, FromCacheOK,
           AskZoneOK, AskAddressOK, AskGluelessOK, GluelessOK, ChasedOK
        DEF Recurse

-----------------------------------------------------------------------------
(***************************************************************************)
(* launch_thread and recurse_thread.                                       *)
(***************************************************************************)
LEMMA EmptyStack == ASSUME NEW c, NEW q, NEW over PROVE IsStack(c, q, << >>, over)
<1>1. << >> \in Seq({}) /\ Len(<< >>) = 0
  OBVIOUS
<1> QED BY <1>1 DEF IsStack, IsList

\* The thread of c changes otherwise than by a call.
LEMMA ThreadOK ==
  ASSUME IInv, NEW c \in Client, deep' = deep,
         DOMAIN thread' = Client, DOMAIN reply' = Client,
         \A b \in Client \ {c} : thread'[b] = thread[b] /\ reply'[b] = reply[b],
         DOMAIN thread'[c] = {"state", "stack", "query"},
         thread'[c].stack # << >> => thread'[c].state = "recurses",
         IsStack(c, QueryType(c)', thread'[c].stack, deep),
         main' # Free => main' \in Client /\ thread'[main'].state = "none",
         IF thread'[c].state \in {"ends", "done"}
         THEN Len(reply'[c]) <= 1 /\ (reply'[c] = << >> => MaySilent(c)')
         ELSE reply'[c] = << >>
  PROVE  IInv'
<1>1. States'
  BY DEF IInv, States
<1>2. Stacks'
  <2> SUFFICES ASSUME NEW b \in Client
               PROVE  IsStack(b, QueryType(b)', thread'[b].stack, deep)
    BY DEF Stacks
  <2>1. CASE b = c
    BY <2>1
  <2>2. CASE b # c
    BY <2>2 DEF IInv, Stacks, QueryType
  <2> QED BY <2>1, <2>2
<1>3. Launched'
  BY DEF Launched
<1>4. Replies'
  <2> SUFFICES ASSUME NEW b \in Client
               PROVE  IF thread'[b].state \in {"ends", "done"}
                      THEN /\ Len(reply'[b]) <= 1
                           /\ reply'[b] = << >> => MaySilent(b)'
                      ELSE reply'[b] = << >>
    BY DEF Replies
  <2>1. CASE b = c
    BY <2>1
  <2>2. CASE b # c
    BY <2>2 DEF IInv, Replies, MaySilent, QueryType
  <2> QED BY <2>1, <2>2
<1> QED BY <1>1, <1>2, <1>3, <1>4 DEF IInv

\* Its first reply.
LEMMA FirstReply ==
  ASSUME IInv, NEW c \in Client, reply[c] = << >>, NEW what, Send(c, what)
  PROVE  /\ DOMAIN reply' = Client /\ deep' = deep
         /\ \A b \in Client \ {c} : reply'[b] = reply[b]
         /\ Len(reply'[c]) <= 1 /\ reply'[c] # << >>
<1>1. reply'[c] = <<what>> /\ DOMAIN reply = Client
  BY DEF Send, IInv, States
<1> QED BY <1>1 DEF Send

LEMMA LaunchThreadOK == ASSUME IInv, NEW c \in Client, LaunchThread(c) PROVE IInv'
<1>1. /\ main = Free /\ thread[c].state = "none" /\ thread[c].stack = << >>
      /\ reply[c] = << >>
      /\ DOMAIN thread = Client /\ DOMAIN reply = Client
      /\ DOMAIN thread[c] = {"state", "stack", "query"}
  BY DEF LaunchThread, IInv, States, Replies
<1>2. PICK q \in Query[c] :
        \/ /\ \E what : Send(c, what)
           /\ thread' = [thread EXCEPT ![c].query = q, ![c].state = "done"]
           /\ UNCHANGED main
        \/ /\ main' = c
           /\ thread' = [thread EXCEPT ![c].query = q]
           /\ Silent
  BY DEF LaunchThread, AnswerAtOnce
<1>3. IsStack(c, QueryType(c)', << >>, deep)
  BY EmptyStack
<1>4. CASE /\ \E what : Send(c, what)
           /\ thread' = [thread EXCEPT ![c].query = q, ![c].state = "done"]
           /\ UNCHANGED main
  <2>1. /\ DOMAIN reply' = Client /\ deep' = deep
        /\ \A b \in Client \ {c} : reply'[b] = reply[b]
        /\ Len(reply'[c]) <= 1 /\ reply'[c] # << >>
    BY <1>1, <1>4, FirstReply
  <2>2. /\ DOMAIN thread' = Client
        /\ \A b \in Client \ {c} : thread'[b] = thread[b]
        /\ DOMAIN thread'[c] = {"state", "stack", "query"}
        /\ thread'[c].stack = << >> /\ thread'[c].state = "done"
    BY <1>1, <1>4
  <2>3. main' = Free
    BY <1>1, <1>4
  <2> QED BY <1>3, <2>1, <2>2, <2>3, ThreadOK
<1>5. CASE /\ main' = c
           /\ thread' = [thread EXCEPT ![c].query = q]
           /\ Silent
  <2>1. /\ DOMAIN thread' = Client
        /\ \A b \in Client \ {c} : thread'[b] = thread[b]
        /\ DOMAIN thread'[c] = {"state", "stack", "query"}
        /\ thread'[c].stack = << >> /\ thread'[c].state = "none"
    BY <1>1, <1>5
  <2>2. reply' = reply /\ deep' = deep
    BY <1>5 DEF Silent
  <2> QED BY <1>1, <1>3, <1>5, <2>1, <2>2, ThreadOK
<1> QED BY <1>2, <1>4, <1>5

LEMMA SpawnThreadOK == ASSUME IInv, NEW c \in Client, SpawnThread(c) PROVE IInv'
<1>1. /\ main = c /\ main' = Free /\ thread[c].state = "none"
      /\ thread[c].stack = << >> /\ reply[c] = << >>
      /\ DOMAIN thread = Client /\ DOMAIN reply = Client
      /\ DOMAIN thread[c] = {"state", "stack", "query"}
  BY RecurseAssumption DEF SpawnThread, IInv, Launched, States, Replies
<1>2. \/ /\ \E what : Send(c, what)
         /\ thread' = [thread EXCEPT ![c].state = "done"]
      \/ thread' = [thread EXCEPT ![c].state = "spawned"] /\ Silent
  BY DEF SpawnThread
<1>3. IsStack(c, QueryType(c)', << >>, deep)
  BY EmptyStack
<1>4. CASE /\ \E what : Send(c, what)
           /\ thread' = [thread EXCEPT ![c].state = "done"]
  <2>1. /\ DOMAIN reply' = Client /\ deep' = deep
        /\ \A b \in Client \ {c} : reply'[b] = reply[b]
        /\ Len(reply'[c]) <= 1 /\ reply'[c] # << >>
    BY <1>1, <1>4, FirstReply
  <2>2. /\ DOMAIN thread' = Client
        /\ \A b \in Client \ {c} : thread'[b] = thread[b]
        /\ DOMAIN thread'[c] = {"state", "stack", "query"}
        /\ thread'[c].stack = << >> /\ thread'[c].state = "done"
    BY <1>1, <1>4
  <2> QED BY <1>1, <1>3, <2>1, <2>2, ThreadOK
<1>5. CASE thread' = [thread EXCEPT ![c].state = "spawned"] /\ Silent
  <2>1. /\ DOMAIN thread' = Client
        /\ \A b \in Client \ {c} : thread'[b] = thread[b]
        /\ DOMAIN thread'[c] = {"state", "stack", "query"}
        /\ thread'[c].stack = << >> /\ thread'[c].state = "spawned"
    BY <1>1, <1>5
  <2>2. reply' = reply /\ deep' = deep
    BY <1>5 DEF Silent
  <2> QED BY <1>1, <1>3, <2>1, <2>2, ThreadOK
<1> QED BY <1>2, <1>4, <1>5

LEMMA ThreadStepOK == ASSUME IInv, NEW c \in Client, Thread(c) PROVE IInv'
<1>1. /\ DOMAIN thread = Client /\ DOMAIN reply = Client
      /\ DOMAIN thread[c] = {"state", "stack", "query"}
  BY DEF IInv, States
<1>2. main' = main /\ reply' = reply /\ deep' = deep
  BY DEF Thread, BeginThread, RecurseThread, EndThread
<1>3. main # c /\ (main # Free => main \in Client /\ thread[main].state = "none")
  BY RecurseAssumption
     DEF IInv, Launched, Thread, BeginThread, RecurseThread, EndThread
<1>4. thread[c].stack = << >>
  BY DEF IInv, States, Thread, BeginThread, RecurseThread, EndThread
<1>5. CASE BeginThread(c) \/ EndThread(c)
  <2>1. /\ DOMAIN thread' = Client
        /\ \A b \in Client \ {c} : thread'[b] = thread[b]
        /\ DOMAIN thread'[c] = {"state", "stack", "query"}
        /\ thread'[c].stack = << >> /\ QueryType(c)' = QueryType(c)
        /\ \/ thread[c].state = "spawned" /\ thread'[c].state = "begun"
           \/ thread[c].state = "ends" /\ thread'[c].state = "done"
    BY <1>1, <1>4, <1>5 DEF BeginThread, EndThread, QueryType
  <2>2. IsStack(c, QueryType(c)', << >>, deep)
    BY EmptyStack
  <2>3. IF thread'[c].state \in {"ends", "done"}
        THEN Len(reply'[c]) <= 1 /\ (reply'[c] = << >> => MaySilent(c)')
        ELSE reply'[c] = << >>
    BY <1>2, <2>1 DEF IInv, Replies, MaySilent
  <2>4. main' # Free => main' \in Client /\ thread'[main'].state = "none"
    BY <1>2, <1>3, <2>1
  <2> QED BY <1>1, <1>2, <2>1, <2>2, <2>3, <2>4, ThreadOK
<1>6. CASE RecurseThread(c)
  <2> DEFINE q == thread[c].query
             f == Frame(q.name, q.type, 0, 0, "client")
  <2>1. /\ DOMAIN thread' = Client
        /\ \A b \in Client \ {c} : thread'[b] = thread[b]
        /\ DOMAIN thread'[c] = {"state", "stack", "query"}
        /\ thread'[c].stack = <<f>> /\ QueryType(c)' = QueryType(c)
        /\ thread[c].state = "begun" /\ thread'[c].state = "recurses"
    BY <1>1, <1>6 DEF RecurseThread, QueryType
  <2>2. IsStack(c, QueryType(c), <<f>>, deep)
    <3>1. IsFrame(c, QueryType(c), 1, f, deep)
      BY NewFrame DEF Types, QueryType
    <3> HIDE DEF f
    <3>2. <<f>> \in Seq({f}) /\ Len(<<f>>) = 1 /\ <<f>>[1] = f
      OBVIOUS
    <3>3. \A i \in 1..Len(<<f>>) : IsFrame(c, QueryType(c), i, <<f>>[i], deep)
      BY <3>1, <3>2
    <3>4. IsList(<<f>>)
      BY <3>2 DEF IsList
    <3> QED BY <3>3, <3>4 DEF IsStack
  <2>3. reply'[c] = << >>
    BY <1>2, <2>1 DEF IInv, Replies
  <2>4. main' # Free => main' \in Client /\ thread'[main'].state = "none"
    BY <1>2, <1>3, <2>1
  <2> HIDE DEF f
  <2> QED BY <1>1, <1>2, <2>1, <2>2, <2>3, <2>4, ThreadOK
<1> QED BY <1>5, <1>6 DEF Thread

LEMMA InitOK == ASSUME Init PROVE IInv
<1>1. ASSUME NEW c \in Client
      PROVE  /\ thread[c] = [state |-> "none", stack |-> << >>,
                             query |-> CHOOSE q \in Query[c] : TRUE]
             /\ reply[c] = << >>
  BY DEF Init
<1>2. States /\ Launched /\ Replies
  BY <1>1 DEF Init, States, Launched, Replies
<1>3. Stacks
  <2>1. ASSUME NEW c \in Client PROVE thread[c].stack = << >>
    <3>1. thread[c] = [state |-> "none", stack |-> << >>,
                       query |-> CHOOSE q \in Query[c] : TRUE]
      BY <1>1
    <3> DEFINE q == CHOOSE q \in Query[c] : TRUE
    <3>2. thread[c] = [state |-> "none", stack |-> << >>, query |-> q]
      BY <3>1
    <3> HIDE DEF q
    <3> QED BY <3>2
  <2> QED BY <2>1, EmptyStack DEF Stacks
<1> QED BY <1>2, <1>3 DEF IInv

LEMMA NextOK == ASSUME IInv, [Next]_vars PROVE IInv'
<1>1. ASSUME NEW c \in Client,
             \/ LaunchThread(c) \/ SpawnThread(c) \/ Thread(c)
             \/ Recurse(c) \/ FromNetwork(c)
      PROVE  IInv'
  BY <1>1, LaunchThreadOK, SpawnThreadOK, ThreadStepOK, RecurseOK, FromNetworkOK
<1>2. ASSUME UNCHANGED <<thread, reply, main, deep>> PROVE IInv'
  BY <1>2 DEF IInv, States, Stacks, Launched, Replies, MaySilent, QueryType
<1>3. ASSUME NEW key, Age(key) PROVE UNCHANGED <<thread, reply, main, deep>>
  BY <1>3 DEF Age
<1>4. ASSUME Done \/ UNCHANGED vars PROVE UNCHANGED <<thread, reply, main, deep>>
  BY <1>4 DEF Done, vars
<1> QED BY <1>1, <1>2, <1>3, <1>4 DEF Next, Works

(***************************************************************************)
(* recurse_call with ipret and ptrret: whatever the servers say and however *)
(* the threads alternate, only the call a thread began with answers its    *)
(* client, and it does so once.                                            *)
(***************************************************************************)
THEOREM OneReplyTheorem == Spec => []OneReply
<1>1. IInv => OneReply
  <2>1. Len(<< >>) = 0
    OBVIOUS
  <2> QED BY <2>1 DEF IInv, Replies, OneReply
<1> QED BY <1>1, InitOK, NextOK, PTL DEF Spec

(***************************************************************************)
(* recurse_call, query_nameserver: whatever fails on the way, however      *)
(* often a call begins again, and whatever is in the cache, a client is    *)
(* left without a reply only when a limit was exceeded, when nothing was   *)
(* found for ANY, or when the mararc asks for it.                          *)
(***************************************************************************)
THEOREM SilentOnlyTooDeepTheorem == Spec => []SilentOnlyTooDeep
<1>1. IInv => SilentOnlyTooDeep
  BY DEF IInv, Replies, MaySilent, QueryType, SilentOnlyTooDeep
<1> QED BY <1>1, InitOK, NextOK, PTL DEF Spec

(***************************************************************************)
(* launch_thread: each client gets one reply, or none and then for one of  *)
(* these reasons.                                                          *)
(***************************************************************************)
THEOREM RepliedOnceTheorem == Spec => []RepliedOnce
<1>1. OneReply /\ SilentOnlyTooDeep => RepliedOnce
  BY DEF RepliedOnce
<1> QED BY <1>1, OneReplyTheorem, SilentOnlyTooDeepTheorem, PTL

-----------------------------------------------------------------------------
(***************************************************************************)
(* The cache and its fila.  What the fila has is an element for each entry *)
(* that is not hardcoded; the invariant follows it through each of the     *)
(* places that add, replace, remove or rotate an entry, and through whole  *)
(* answers, whose records are added one by one.                            *)
(***************************************************************************)
EntryFields == {"kind", "chain", "ip", "age", "hard"}

\* The entries that may be removed.
Loose(d) == {k \in DOMAIN d.hash : ~d.hash[k].hard}
Listed(d) == {Element(d, k) : k \in Loose(d)}

HashOK(d) ==
  \A k \in DOMAIN d.hash :
    /\ DOMAIN d.hash[k] = EntryFields
    /\ ~d.hash[k].hard => IsList(d.hash[k].chain) /\ d.hash[k].chain # << >>
FilaOK(q, listed) == IsList(q) /\ NoDuplicate(q) /\ ToSet(q) = listed

DbOK(d) ==
  /\ DOMAIN d = {"hash", "fila", "custodian_mode", "exited"}
  /\ d.exited = FALSE
  /\ HashOK(d) /\ FilaOK(d.fila, Listed(d))

LEMMA ElementOK ==
  ASSUME NEW d, NEW k PROVE Element(d, k).key = k /\ Element(d, k).id = FirstId(d, k)
BY DEF Element

\* Entries that have the same first records make the same list.
LEMMA SameListed ==
  ASSUME NEW d, NEW e, DOMAIN e.hash = DOMAIN d.hash,
         \A k \in DOMAIN d.hash :
           /\ e.hash[k].hard = d.hash[k].hard
           /\ ~d.hash[k].hard => FirstId(e, k) = FirstId(d, k)
  PROVE  Listed(e) = Listed(d)
<1>1. Loose(e) = Loose(d)
  BY DEF Loose
<1>2. \A k \in Loose(d) : Element(e, k) = Element(d, k)
  BY DEF Loose, Element
<1> QED BY <1>1, <1>2 DEF Listed

LEMMA MovedOK ==
  ASSUME NEW q, NEW listed, FilaOK(q, listed), NEW f \in listed
  PROVE  FilaOK(Unlinked(q, f), listed \ {f}) /\ FilaOK(MovedToFront(q, f), listed)
<1>1. PICK S : q \in Seq(S)
  BY DEF FilaOK, IsList
<1> DEFINE u == Unlinked(q, f)
<1>2. u \in Seq(S) /\ NoDuplicate(u) /\ ToSet(u) = listed \ {f}
  BY <1>1, UnlinkedOK DEF FilaOK
<1>3. f \in S
  BY <1>1 DEF FilaOK, ToSet
<1> HIDE DEF u
<1>4. /\ AtFront(u, f) \in Seq(S) /\ NoDuplicate(AtFront(u, f))
      /\ ToSet(AtFront(u, f)) = ToSet(u) \union {f}
  <2>1. f \notin ToSet(u)
    BY <1>2
  <2> QED BY <1>2, <1>3, <2>1, AtFrontOK
<1>5. FilaOK(u, listed \ {f}) /\ FilaOK(AtFront(u, f), listed)
  BY <1>2, <1>4 DEF FilaOK, IsList
<1> QED BY <1>5 DEF u, MovedToFront

LEMMA FrontAddedOK ==
  ASSUME NEW q, NEW listed, FilaOK(q, listed), NEW f, f \notin listed
  PROVE  FilaOK(AtFront(q, f), listed \union {f})
<1>1. PICK S : q \in Seq(S)
  BY DEF FilaOK, IsList
<1>2. q \in Seq(S \union {f}) /\ f \in S \union {f}
  BY <1>1
<1>3. f \notin ToSet(q) /\ NoDuplicate(q)
  BY DEF FilaOK
<1>4. /\ AtFront(q, f) \in Seq(S \union {f}) /\ NoDuplicate(AtFront(q, f))
      /\ ToSet(AtFront(q, f)) = ToSet(q) \union {f}
  BY <1>2, <1>3, AtFrontOK
<1> QED BY <1>4 DEF FilaOK, IsList

LEMMA MoveToTopOK ==
  ASSUME NEW d, DbOK(d), NEW key \in DOMAIN d.hash
  PROVE  DbOK(MoveToTop(d, key)) /\ MoveToTop(d, key).hash = d.hash
<1> DEFINE q == IF d.hash[key].hard THEN d.fila
                ELSE MovedToFront(d.fila, Element(d, key))
           e == MoveToTop(d, key)
<1>1. FilaOK(q, Listed(d))
  <2>1. CASE d.hash[key].hard
    BY <2>1 DEF DbOK
  <2>2. CASE ~d.hash[key].hard
    <3>1. Element(d, key) \in Listed(d)
      BY <2>2 DEF Listed, Loose
    <3> QED BY <2>2, <3>1, MovedOK DEF DbOK
  <2> QED BY <2>1, <2>2
<1>2. e = [d EXCEPT !.fila = q]
  BY DEF MoveToTop
<1> HIDE DEF q, e
<1>3. DOMAIN e = DOMAIN d /\ e.hash = d.hash /\ e.exited = d.exited /\ e.fila = q
  BY <1>2 DEF DbOK
<1>4. HashOK(e)
  BY <1>3 DEF DbOK, HashOK
<1>5. Listed(e) = Listed(d)
  BY <1>3, SameListed DEF FirstId
<1>6. DbOK(e)
  BY <1>1, <1>3, <1>4, <1>5 DEF DbOK
<1> QED BY <1>3, <1>6 DEF e

LEMMA UnlinkOK ==
  ASSUME NEW d, DbOK(d), NEW key \in DOMAIN d.hash
  PROVE  DbOK(Unlink(d, key)) /\ DOMAIN Unlink(d, key).hash = DOMAIN d.hash \ {key}
<1> DEFINE q == IF d.hash[key].hard THEN d.fila ELSE Unlinked(d.fila, Element(d, key))
           h == [k \in DOMAIN d.hash \ {key} |-> d.hash[k]]
           e == Unlink(d, key)
<1>1. FilaOK(q, Listed(d) \ {Element(d, key)})
  <2>1. CASE d.hash[key].hard
    <3>1. Element(d, key) \notin Listed(d)
      BY <2>1, ElementOK DEF Listed, Loose
    <3> QED BY <2>1, <3>1 DEF DbOK, FilaOK
  <2>2. CASE ~d.hash[key].hard
    <3>1. Element(d, key) \in Listed(d)
      BY <2>2 DEF Listed, Loose
    <3> QED BY <2>2, <3>1, MovedOK DEF DbOK
  <2> QED BY <2>1, <2>2
<1>2. e = [d EXCEPT !.hash = h, !.fila = q]
  BY DEF Unlink
<1>3. DOMAIN h = DOMAIN d.hash \ {key} /\ \A k \in DOMAIN h : h[k] = d.hash[k]
  OBVIOUS
<1> HIDE DEF q, h, e
<1>4. DOMAIN e = DOMAIN d /\ e.hash = h /\ e.exited = d.exited /\ e.fila = q
  BY <1>2 DEF DbOK
<1>5. HashOK(e)
  BY <1>3, <1>4 DEF DbOK, HashOK
<1>6. Listed(e) = Listed(d) \ {Element(d, key)}
  <2>1. Loose(e) = Loose(d) \ {key}
    BY <1>3, <1>4 DEF Loose
  <2>2. \A k \in Loose(e) : Element(e, k) = Element(d, k)
    BY <1>3, <1>4 DEF Loose, Element, FirstId
  <2>3. \A k \in Loose(d) : Element(d, k) = Element(d, key) => k = key
    BY ElementOK
  <2> QED BY <2>1, <2>2, <2>3 DEF Listed
<1>7. DbOK(e)
  BY <1>1, <1>4, <1>5, <1>6 DEF DbOK
<1> QED BY <1>3, <1>4, <1>7 DEF e

LEMMA OverwriteOK ==
  ASSUME NEW d, DbOK(d), NEW key, NEW kind, NEW value
  PROVE  DbOK(Overwrite(d, key, kind, value))
<1> DEFINE clear == IF key \in DOMAIN d.hash THEN Unlink(d, key) ELSE d
           id == NewId(clear)
           new == Entry(kind, <<Item(id, value)>>, FALSE)
           f == [key |-> key, id |-> id]
           h == [k \in DOMAIN clear.hash \union {key} |->
                   IF k = key THEN new ELSE clear.hash[k]]
           e == Overwrite(d, key, kind, value)
<1>1. DbOK(clear) /\ key \notin DOMAIN clear.hash
  BY UnlinkOK
<1>2. e = [clear EXCEPT !.hash = h, !.fila = AtFront(@, f)]
  BY DEF Overwrite
<1>3. /\ DOMAIN new = EntryFields /\ new.hard = FALSE
      /\ IsList(new.chain) /\ new.chain # << >> /\ new.chain[1].id = id
  <2> DEFINE item == Item(id, value)
  <2>1. item.id = id
    BY DEF Item
  <2> HIDE DEF item
  <2>2. <<item>> \in Seq({item}) /\ <<item>> # << >> /\ <<item>>[1] = item
    OBVIOUS
  <2>3. DOMAIN new = EntryFields /\ new.hard = FALSE /\ new.chain = <<item>>
    BY DEF Entry, EntryFields, item
  <2> HIDE DEF new
  <2> QED BY <2>1, <2>2, <2>3 DEF IsList
<1> HIDE DEF id, new
<1>4. /\ DOMAIN h = DOMAIN clear.hash \union {key} /\ h[key] = new
      /\ \A k \in DOMAIN clear.hash : k # key /\ h[k] = clear.hash[k]
  BY <1>1
<1> HIDE DEF clear, h, e
<1>5. /\ DOMAIN e = DOMAIN clear /\ e.hash = h /\ e.exited = clear.exited
      /\ e.fila = AtFront(clear.fila, f)
  BY <1>1, <1>2 DEF DbOK
<1>6. HashOK(e)
  BY <1>1, <1>3, <1>4, <1>5 DEF DbOK, HashOK
<1>7. f \notin Listed(clear)
  BY <1>1, ElementOK DEF Listed, Loose
<1>8. Listed(e) = Listed(clear) \union {f}
  <2>1. Loose(e) = Loose(clear) \union {key}
    BY <1>3, <1>4, <1>5 DEF Loose
  <2>2. \A k \in Loose(clear) : Element(e, k) = Element(clear, k)
    BY <1>4, <1>5 DEF Loose, Element, FirstId
  <2>3. Element(e, key) = f
    BY <1>3, <1>4, <1>5 DEF Element, FirstId
  <2> HIDE DEF f
  <2> QED BY <2>1, <2>2, <2>3 DEF Listed
<1>9. FilaOK(AtFront(clear.fila, f), Listed(clear) \union {f})
  <2> HIDE DEF f
  <2> QED BY <1>1, <1>7, FrontAddedOK DEF DbOK
<1>10. DbOK(e)
  BY <1>1, <1>5, <1>6, <1>8, <1>9 DEF DbOK
<1> QED BY <1>10 DEF e

\* An entry is changed, but not whether it is hardcoded.
LEMMA ChangedOK ==
  ASSUME NEW d, DbOK(d), NEW key \in DOMAIN d.hash, NEW x, NEW e, NEW q,
         DOMAIN x = EntryFields, x.hard = d.hash[key].hard,
         ~x.hard => IsList(x.chain) /\ x.chain # << >>,
         e.hash = [d.hash EXCEPT ![key] = x], e.fila = q,
         DOMAIN e = DOMAIN d, e.exited = d.exited, FilaOK(q, Listed(e))
  PROVE  DbOK(e)
<1>1. /\ DOMAIN e.hash = DOMAIN d.hash /\ e.hash[key] = x
      /\ \A k \in DOMAIN d.hash : k # key => e.hash[k] = d.hash[k]
  BY DEF DbOK
<1>2. HashOK(e)
  BY <1>1 DEF DbOK, HashOK
<1> QED BY <1>2 DEF DbOK

\* The same, and its first record stays.
LEMMA KeptOK ==
  ASSUME NEW d, DbOK(d), NEW key \in DOMAIN d.hash, NEW x, NEW e,
         DOMAIN x = EntryFields, x.hard = d.hash[key].hard,
         ~x.hard => /\ IsList(x.chain) /\ x.chain # << >>
                    /\ x.chain[1] = d.hash[key].chain[1],
         e = [d EXCEPT !.hash = [d.hash EXCEPT ![key] = x]]
  PROVE  DbOK(e)
<1>1. /\ e.hash = [d.hash EXCEPT ![key] = x] /\ e.fila = d.fila
      /\ DOMAIN e = DOMAIN d /\ e.exited = d.exited
  BY DEF DbOK
<1>2. /\ DOMAIN e.hash = DOMAIN d.hash /\ e.hash[key] = x
      /\ \A k \in DOMAIN d.hash : k # key => e.hash[k] = d.hash[k]
  BY <1>1
<1>3. Listed(e) = Listed(d)
  <2>1. ASSUME NEW k \in DOMAIN d.hash
        PROVE  /\ e.hash[k].hard = d.hash[k].hard
               /\ ~d.hash[k].hard => FirstId(e, k) = FirstId(d, k)
    BY <1>2 DEF FirstId
  <2> QED BY <1>2, <2>1, SameListed
<1>4. FilaOK(e.fila, Listed(e))
  BY <1>1, <1>3 DEF DbOK
<1> QED BY <1>1, <1>4, ChangedOK

LEMMA AppendChain ==
  ASSUME NEW s, IsList(s), s # << >>, NEW x
  PROVE  IsList(Append(s, x)) /\ Append(s, x) # << >> /\ Append(s, x)[1] = s[1]
<1>1. PICK S : s \in Seq(S)
  BY DEF IsList
<1>2. s \in Seq(S \union {x}) /\ x \in S \union {x}
  BY <1>1
<1>3. Append(s, x) \in Seq(S \union {x}) /\ Append(s, x)[1] = s[1] /\ Append(s, x) # << >>
  BY <1>2
<1> QED BY <1>3 DEF IsList

LEMMA TurnedChain ==
  ASSUME NEW s, IsList(s), s # << >>
  PROVE  IsList(Append(Tail(s), Head(s))) /\ Append(Tail(s), Head(s)) # << >>
<1>1. PICK S : s \in Seq(S)
  BY DEF IsList
<1>2. Tail(s) \in Seq(S) /\ Head(s) \in S
  BY <1>1
<1> DEFINE t == Tail(s)
<1> HIDE DEF t
<1>3. t \in Seq(S)
  BY <1>2 DEF t
<1>4. Append(t, Head(s)) \in Seq(S) /\ Append(t, Head(s)) # << >>
  BY <1>2, <1>3, AppendProperties
<1> QED BY <1>4 DEF IsList, t

LEMMA AppendToOK ==
  ASSUME NEW d, DbOK(d), NEW key \in DOMAIN d.hash, NEW value
  PROVE  DbOK(AppendTo(d, key, value))
<1> DEFINE r == d.hash[key]
           item == Item(NewId(d), value)
           x == [r EXCEPT !.chain = Append(@, item)]
           e == AppendTo(d, key, value)
<1>1. DOMAIN r = EntryFields /\ (~r.hard => IsList(r.chain) /\ r.chain # << >>)
  BY DEF DbOK, HashOK
<1>2. e = [d EXCEPT !.hash = [d.hash EXCEPT ![key] = x]]
  BY DEF AppendTo
<1> HIDE DEF item, e
<1>3. DOMAIN x = EntryFields /\ x.hard = r.hard /\ x.chain = Append(r.chain, item)
  BY <1>1 DEF EntryFields
<1>4. ~r.hard => IsList(x.chain) /\ x.chain # << >> /\ x.chain[1] = r.chain[1]
  BY <1>1, <1>3, AppendChain
<1> HIDE DEF x
<1>5. DbOK(e)
  BY <1>2, <1>3, <1>4, KeptOK
<1> QED BY <1>5 DEF e

\* What the custodian takes from the end of the fila is in the hash, and what
\* it leaves in the hash is what it leaves in the fila.
LEMMA CustodianOK ==
  ASSUME NEW d, DbOK(d)
  PROVE  DbOK(Custodian(d))
<1> DEFINE n == Cardinality(DOMAIN d.hash)
           mode == IF n >= cache_max THEN cache_max \div 100 ELSE d.custodian_mode
           len == Len(d.fila)
           kept == IF Axed < len THEN len - Axed ELSE 0
           zapped == {d.fila[i].key : i \in (kept + 1)..len}
           h == [k \in DOMAIN d.hash \ zapped |-> d.hash[k]]
           q == SubSeq(d.fila, 1, kept)
           left == IF Axed > len THEN mode ELSE mode - Axed
           e == Custodian(d)
<1>1. PICK S : d.fila \in Seq(S)
  BY DEF DbOK, FilaOK, IsList
<1>2. len \in Nat /\ kept \in 0..len
  BY <1>1, RecurseAssumption
<1>3. e = d \/ e = [d EXCEPT !.hash = h, !.fila = q, !.custodian_mode = left,
                             !.exited = @ \/ ~ zapped \subseteq DOMAIN d.hash]
  BY DEF Custodian
<1> HIDE DEF e, mode, left, n
<1>4. \A i \in 1..len : d.fila[i].key \in Loose(d) /\ d.fila[i] = Element(d, d.fila[i].key)
  <2>1. \A i \in 1..len : d.fila[i] \in Listed(d)
    <3>1. DOMAIN d.fila = 1..len
      BY <1>1
    <3> QED BY <3>1 DEF DbOK, FilaOK, ToSet
  <2> HIDE DEF len
  <2> QED BY <2>1, ElementOK DEF Listed
<1>5. \A k \in Loose(d) : \E i \in 1..len : d.fila[i] = Element(d, k)
  <2>1. DOMAIN d.fila = 1..len
    BY <1>1
  <2>2. \A k \in Loose(d) : Element(d, k) \in ToSet(d.fila)
    BY DEF DbOK, FilaOK, Listed
  <2> HIDE DEF len
  <2> QED BY <2>1, <2>2 DEF ToSet
<1>6. \A i, j \in 1..len : d.fila[i] = d.fila[j] => i = j
  BY DEF DbOK, FilaOK, NoDuplicate
<1>7. /\ q \in Seq(S) /\ Len(q) = kept
      /\ \A i \in 1..kept : i \in 1..len /\ q[i] = d.fila[i]
  <2> HIDE DEF kept
  <2> QED BY <1>1, <1>2
<1>8. \A i \in (kept + 1)..len : i \in 1..len /\ i \notin 1..kept
  <2> HIDE DEF kept, len
  <2> QED BY <1>2
<1>9. \A i \in 1..len : i \in 1..kept \/ i \in (kept + 1)..len
  <2> HIDE DEF kept, len
  <2> QED BY <1>2
<1> HIDE DEF kept, len, q
<1>10. zapped \subseteq Loose(d) /\ zapped \subseteq DOMAIN d.hash
  BY <1>4, <1>8 DEF Loose
<1>11. {q[i] : i \in 1..kept} = {Element(d, k) : k \in Loose(d) \ zapped}
  <2>1. ASSUME NEW i \in 1..kept
        PROVE  q[i] \in {Element(d, k) : k \in Loose(d) \ zapped}
    <3>1. /\ i \in 1..len /\ q[i] = Element(d, d.fila[i].key)
          /\ d.fila[i].key \in Loose(d)
      BY <1>4, <1>7
    <3>2. d.fila[i].key \notin zapped
      <4>1. SUFFICES ASSUME NEW j \in (kept + 1)..len, d.fila[i].key = d.fila[j].key
                     PROVE  FALSE
        OBVIOUS
      <4>2. d.fila[i] = d.fila[j]
        BY <1>4, <1>8, <3>1, <4>1
      <4> QED BY <1>6, <1>8, <3>1, <4>2
    <3> QED BY <3>1, <3>2
  <2>2. ASSUME NEW k \in Loose(d) \ zapped
        PROVE  \E i \in 1..kept : q[i] = Element(d, k)
    <3>1. PICK i \in 1..len : d.fila[i] = Element(d, k)
      BY <1>5
    <3>2. i \in 1..kept
      BY <1>9, <3>1, ElementOK
    <3> QED BY <1>7, <3>1, <3>2
  <2> QED BY <2>1, <2>2
<1>12. DOMAIN h = DOMAIN d.hash \ zapped /\ \A k \in DOMAIN h : h[k] = d.hash[k]
  OBVIOUS
<1> HIDE DEF h
<1>13. ASSUME e # d PROVE DbOK(e)
  <2>1. /\ DOMAIN e = DOMAIN d /\ e.hash = h /\ e.fila = q
        /\ e.exited = (d.exited \/ ~ zapped \subseteq DOMAIN d.hash)
    BY <1>3, <1>13 DEF DbOK
  <2> HIDE DEF zapped
  <2>2. e.exited = FALSE
    BY <1>10, <2>1 DEF DbOK
  <2>3. HashOK(e)
    BY <1>12, <2>1 DEF DbOK, HashOK
  <2>4. Listed(e) = {Element(d, k) : k \in Loose(d) \ zapped}
    <3>1. Loose(e) = Loose(d) \ zapped
      BY <1>12, <2>1 DEF Loose
    <3>2. \A k \in Loose(e) : Element(e, k) = Element(d, k)
      BY <1>12, <2>1 DEF Loose, Element, FirstId
    <3> QED BY <3>1, <3>2 DEF Listed
  <2>5. ToSet(q) = {q[i] : i \in 1..kept}
    <3>1. DOMAIN q = 1..kept
      BY <1>7
    <3> QED BY <3>1 DEF ToSet
  <2>6. NoDuplicate(q)
    <3>1. \A i, j \in 1..kept : q[i] = q[j] => i = j
      BY <1>6, <1>7
    <3> QED BY <1>7, <3>1 DEF NoDuplicate
  <2>7. FilaOK(e.fila, Listed(e))
    BY <1>7, <1>11, <2>1, <2>4, <2>5, <2>6 DEF FilaOK, IsList
  <2> QED BY <2>1, <2>2, <2>3, <2>7 DEF DbOK
<1>14. DbOK(e)
  BY <1>13
<1> QED BY <1>14 DEF e

LEMMA RotatedOK ==
  ASSUME NEW d, DbOK(d), NEW key \in DOMAIN d.hash
  PROVE  DbOK(Rotated(d, key))
<1> DEFINE r == d.hash[key]
           turned == Append(Tail(r.chain), Head(r.chain))
           x == [r EXCEPT !.chain = turned]
           old == Element(d, key)
           new == [key |-> key, id |-> turned[1].id]
           q == [i \in DOMAIN d.fila |-> IF d.fila[i] = old THEN new ELSE d.fila[i]]
           e == Rotated(d, key)
<1>1. DOMAIN r = EntryFields /\ (~r.hard => IsList(r.chain) /\ r.chain # << >>)
  BY DEF DbOK, HashOK
<1>2. e = [d EXCEPT !.hash = [d.hash EXCEPT ![key] = x], !.fila = q]
  BY DEF Rotated
<1>3. ~r.hard => IsList(turned) /\ turned # << >>
  BY <1>1, TurnedChain
<1> HIDE DEF turned
<1>4. DOMAIN x = EntryFields /\ x.hard = r.hard /\ x.chain = turned
  BY <1>1 DEF EntryFields
<1> HIDE DEF x, e, old, new
<1>5. DOMAIN q = DOMAIN d.fila /\ \A i \in DOMAIN q : q[i] = IF d.fila[i] = old THEN new ELSE d.fila[i]
  OBVIOUS
<1>6. IsList(q) /\ Len(q) = Len(d.fila) /\ DOMAIN d.fila = 1..Len(d.fila)
  <2>1. PICK S : d.fila \in Seq(S)
    BY DEF DbOK, FilaOK, IsList
  <2>2. q \in Seq(S \union {new}) /\ Len(q) = Len(d.fila)
    BY <2>1
  <2> QED BY <2>1, <2>2 DEF IsList
<1> HIDE DEF q
<1>7. /\ DOMAIN e = DOMAIN d /\ e.exited = d.exited /\ e.fila = q
      /\ e.hash = [d.hash EXCEPT ![key] = x]
  BY <1>2 DEF DbOK
<1>8. /\ DOMAIN e.hash = DOMAIN d.hash /\ e.hash[key] = x
      /\ \A k \in DOMAIN d.hash : k # key => e.hash[k] = d.hash[k]
  BY <1>7
<1>9. Loose(e) = Loose(d)
  BY <1>4, <1>8 DEF Loose
<1>10. \A k \in Loose(d) : Element(e, k) = IF k = key THEN new ELSE Element(d, k)
  BY <1>4, <1>8 DEF Loose, Element, FirstId, new
<1>11. \A k \in Loose(d) : Element(d, k) = old <=> k = key
  BY ElementOK DEF old
<1>12. \A y \in Listed(d) : y = new => y = old
  BY <1>11, ElementOK DEF Listed, new
<1>13. NoDuplicate(q)
  <2>1. \A i \in 1..Len(d.fila) : d.fila[i] \in Listed(d)
    BY <1>6 DEF DbOK, FilaOK, ToSet
  <2>2. \A i, j \in 1..Len(d.fila) : d.fila[i] = d.fila[j] => i = j
    BY DEF DbOK, FilaOK, NoDuplicate
  <2> QED BY <1>5, <1>6, <1>12, <2>1, <2>2 DEF NoDuplicate
<1>14. ToSet(q) = Listed(e)
  <2>1. ToSet(d.fila) = Listed(d)
    BY DEF DbOK, FilaOK
  <2>2. ASSUME NEW i \in DOMAIN q PROVE q[i] \in Listed(e)
    <3>1. d.fila[i] \in Listed(d)
      BY <1>5, <2>1 DEF ToSet
    <3>2. PICK k \in Loose(d) : d.fila[i] = Element(d, k)
      BY <3>1 DEF Listed
    <3>3. q[i] = Element(e, k)
      BY <1>5, <1>10, <1>11, <3>2
    <3> QED BY <1>9, <3>3 DEF Listed
  <2>3. ASSUME NEW k \in Loose(e) PROVE \E i \in DOMAIN q : q[i] = Element(e, k)
    <3>1. Element(d, k) \in ToSet(d.fila)
      BY <1>9, <2>1 DEF Listed
    <3>2. PICK i \in DOMAIN q : d.fila[i] = Element(d, k)
      BY <1>5, <3>1 DEF ToSet
    <3>3. q[i] = Element(e, k)
      BY <1>5, <1>9, <1>10, <1>11, <3>2
    <3> QED BY <3>3
  <2>4. ToSet(q) \subseteq Listed(e)
    BY <2>2 DEF ToSet
  <2>5. Listed(e) \subseteq ToSet(q)
    BY <2>3 DEF ToSet, Listed
  <2> QED BY <2>4, <2>5
<1>15. FilaOK(q, Listed(e))
  BY <1>6, <1>13, <1>14 DEF FilaOK
<1>16. DbOK(e)
  BY <1>3, <1>4, <1>7, <1>15, ChangedOK
<1> QED BY <1>16 DEF e

LEMMA AddIpOK ==
  ASSUME NEW d, DbOK(d), NEW key, NEW value
  PROVE  DbOK(AddIp(d, key, value))
<1> DEFINE x == [d.hash[key] EXCEPT !.ip = value]
           e == [d EXCEPT !.hash = [d.hash EXCEPT ![key] = x]]
<1>1. CASE AddIp(d, key, value) = d
  BY <1>1
<1>2. CASE AddIp(d, key, value) # d
  <2>1. key \in DOMAIN d.hash /\ AddIp(d, key, value) = e
    BY <1>2 DEF AddIp, Holds
  <2>2. /\ DOMAIN d.hash[key] = EntryFields
        /\ ~d.hash[key].hard => IsList(d.hash[key].chain) /\ d.hash[key].chain # << >>
    BY <2>1 DEF DbOK, HashOK
  <2>3. /\ DOMAIN x = EntryFields /\ x.hard = d.hash[key].hard
        /\ x.chain = d.hash[key].chain
    BY <2>2 DEF EntryFields
  <2> HIDE DEF x
  <2>4. DbOK(e)
    BY <2>1, <2>2, <2>3, KeptOK
  <2> QED BY <2>1, <2>4
<1> QED BY <1>1, <1>2

LEMMA AgeOK ==
  ASSUME DbOK(db), NEW key \in DOMAIN db.hash, Age(key)
  PROVE  DbOK(db')
<1>1. PICK age : db' = [db EXCEPT !.hash[key].age = age]
  BY DEF Age
<1> DEFINE x == [db.hash[key] EXCEPT !.age = age]
<1>2. db' = [db EXCEPT !.hash = [db.hash EXCEPT ![key] = x]]
  BY <1>1
<1>3. /\ DOMAIN db.hash[key] = EntryFields
      /\ ~db.hash[key].hard => IsList(db.hash[key].chain) /\ db.hash[key].chain # << >>
  BY DEF DbOK, HashOK
<1>4. /\ DOMAIN x = EntryFields /\ x.hard = db.hash[key].hard
      /\ x.chain = db.hash[key].chain
  BY <1>3 DEF EntryFields
<1> HIDE DEF x
<1> QED BY <1>2, <1>3, <1>4, KeptOK

-----------------------------------------------------------------------------
(***************************************************************************)
(* The size of the cache.  Only a new entry makes it larger; the custodian *)
(* is called at once, and finds that entry in the fila at least.           *)
(***************************************************************************)
Small(d) == Cardinality(DOMAIN d.hash) < cache_max \/ Loose(d) = {}
Bounded(d) == DbOK(d) /\ IsFiniteSet(DOMAIN d.hash) /\ Small(d)

\* Fewer entries, or the same, and none more that may be removed.
LEMMA FewerBounded ==
  ASSUME NEW d, Bounded(d), NEW e, DbOK(e),
         DOMAIN e.hash \subseteq DOMAIN d.hash, Loose(e) \subseteq Loose(d)
  PROVE  Bounded(e)
<1>1. /\ IsFiniteSet(DOMAIN e.hash)
      /\ Cardinality(DOMAIN e.hash) <= Cardinality(DOMAIN d.hash)
      /\ Cardinality(DOMAIN e.hash) \in Nat /\ Cardinality(DOMAIN d.hash) \in Nat
  BY FS_Subset, FS_CardinalityType DEF Bounded
<1>2. Small(e)
  BY <1>1, RecurseAssumption DEF Bounded, Small
<1> QED BY <1>1, <1>2 DEF Bounded

\* An entry is changed, but not whether it is hardcoded.
LEMMA ChangedBounded ==
  ASSUME NEW d, Bounded(d), NEW key \in DOMAIN d.hash, NEW x,
         x.hard = d.hash[key].hard, NEW e, DbOK(e),
         e.hash = [d.hash EXCEPT ![key] = x]
  PROVE  Bounded(e)
<1>1. DOMAIN e.hash = DOMAIN d.hash /\ Loose(e) = Loose(d)
  BY DEF Loose
<1> QED BY <1>1, FewerBounded

LEMMA MoveToTopBounded ==
  ASSUME NEW d, Bounded(d), NEW key \in DOMAIN d.hash
  PROVE  Bounded(MoveToTop(d, key)) /\ MoveToTop(d, key).hash = d.hash
<1>1. DbOK(MoveToTop(d, key)) /\ MoveToTop(d, key).hash = d.hash
  BY MoveToTopOK DEF Bounded
<1>2. Loose(MoveToTop(d, key)) = Loose(d)
  BY <1>1 DEF Loose
<1> QED BY <1>1, <1>2, FewerBounded

LEMMA UnlinkBounded ==
  ASSUME NEW d, Bounded(d), NEW key \in DOMAIN d.hash
  PROVE  Bounded(Unlink(d, key)) /\ Loose(Unlink(d, key)) \subseteq Loose(d)
<1> DEFINE e == Unlink(d, key)
<1>1. DbOK(e) /\ DOMAIN e.hash = DOMAIN d.hash \ {key}
  BY UnlinkOK DEF Bounded
<1>2. e.hash = [k \in DOMAIN d.hash \ {key} |-> d.hash[k]]
  BY DEF Unlink, Bounded, DbOK
<1> HIDE DEF e
<1>3. Loose(e) \subseteq Loose(d)
  BY <1>1, <1>2 DEF Loose
<1>4. Bounded(e)
  BY <1>1, <1>3, FewerBounded
<1> QED BY <1>3, <1>4 DEF e

LEMMA AppendToBounded ==
  ASSUME NEW d, Bounded(d), NEW key \in DOMAIN d.hash, NEW value
  PROVE  Bounded(AppendTo(d, key, value))
<1> DEFINE x == [d.hash[key] EXCEPT !.chain = Append(@, Item(NewId(d), value))]
           e == AppendTo(d, key, value)
<1>1. DbOK(e)
  BY AppendToOK DEF Bounded
<1>2. e.hash = [d.hash EXCEPT ![key] = x]
  BY DEF AppendTo, Bounded, DbOK
<1>3. x.hard = d.hash[key].hard
  BY DEF Bounded, DbOK, HashOK, EntryFields
<1> HIDE DEF x, e
<1>4. Bounded(e)
  BY <1>1, <1>2, <1>3, ChangedBounded
<1> QED BY <1>4 DEF e

\* What the custodian leaves, if it does anything.
LEMMA CustodianTakes ==
  ASSUME NEW d, DbOK(d), IsFiniteSet(DOMAIN d.hash)
  PROVE  /\ DOMAIN Custodian(d).hash \subseteq DOMAIN d.hash
         /\ Loose(Custodian(d)) \subseteq Loose(d)
         /\ Cardinality(DOMAIN d.hash) >= cache_max =>
              \/ Loose(Custodian(d)) = {}
              \/ /\ Len(d.fila) > 1
                 /\ \E k \in DOMAIN d.hash : k \notin DOMAIN Custodian(d).hash
<1> DEFINE len == Len(d.fila)
           kept == IF Axed < len THEN len - Axed ELSE 0
           zapped == {d.fila[i].key : i \in (kept + 1)..len}
           h == [k \in DOMAIN d.hash \ zapped |-> d.hash[k]]
           full == Cardinality(DOMAIN d.hash) >= cache_max
           e == Custodian(d)
<1>1. PICK S : d.fila \in Seq(S)
  BY DEF DbOK, FilaOK, IsList
<1>2. len \in Nat /\ DOMAIN d.fila = 1..len
  BY <1>1
<1>3. e = d \/ e.hash = h
  BY DEF Custodian, DbOK
<1>4. full => e.hash = h
  <2> DEFINE n == Cardinality(DOMAIN d.hash)
  <2>1. full => ~(n < cache_max /\ d.custodian_mode <= 0)
    <3>1. n >= cache_max => ~(n < cache_max)
      <4>1. cache_max \in Int /\ n \in Int
        BY RecurseAssumption, FS_CardinalityType
      <4> HIDE DEF n
      <4> QED BY <4>1
    <3> QED BY <3>1
  <2> HIDE DEF full
  <2> QED BY <2>1 DEF Custodian, DbOK
<1>5. DOMAIN h = DOMAIN d.hash \ zapped /\ \A k \in DOMAIN h : h[k] = d.hash[k]
  OBVIOUS
<1>6. \A i \in 1..len : d.fila[i].key \in Loose(d)
  <2>1. \A i \in 1..len : d.fila[i] \in Listed(d)
    BY <1>2 DEF DbOK, FilaOK, ToSet
  <2> HIDE DEF len
  <2> QED BY <2>1, ElementOK DEF Listed
<1>7. \A k \in Loose(d) : \E i \in 1..len : d.fila[i].key = k
  <2>1. \A k \in Loose(d) : Element(d, k) \in ToSet(d.fila)
    BY DEF DbOK, FilaOK, Listed
  <2> HIDE DEF len
  <2> QED BY <1>2, <2>1, ElementOK DEF ToSet
<1> HIDE DEF e, h, full
<1>8. DOMAIN e.hash \subseteq DOMAIN d.hash /\ Loose(e) \subseteq Loose(d)
  BY <1>3, <1>5 DEF Loose
<1>9. ASSUME full, Loose(e) # {}
      PROVE  len > 1 /\ \E k \in DOMAIN d.hash : k \notin DOMAIN e.hash
  <2>1. PICK k \in Loose(d) : k \notin zapped
    BY <1>4, <1>5, <1>9 DEF Loose
  <2>2. PICK i \in 1..len : d.fila[i].key = k
    BY <1>7
  <2>3. i \notin (kept + 1)..len
    BY <2>1, <2>2
  <2>4. kept # 0
    <3> HIDE DEF kept, len
    <3> QED BY <2>2, <2>3
  <2>5. Axed < len /\ kept = len - Axed /\ len > 1 /\ len \in (kept + 1)..len
        /\ len \in 1..len
    <3>1. Axed \in Nat \ {0}
      BY RecurseAssumption
    <3>2. Axed < len /\ kept = len - Axed
      BY <2>4
    <3> HIDE DEF kept, len
    <3> QED BY <1>2, <3>1, <3>2
  <2>6. d.fila[len].key \in zapped /\ d.fila[len].key \in DOMAIN d.hash
    BY <1>6, <2>5 DEF Loose
  <2>7. d.fila[len].key \notin DOMAIN e.hash
    BY <1>4, <1>5, <1>9, <2>6
  <2> QED BY <2>5, <2>6, <2>7
<1> QED BY <1>8, <1>9 DEF e, full

LEMMA CustodianBounded ==
  ASSUME NEW d, Bounded(d) PROVE Bounded(Custodian(d))
BY CustodianOK, CustodianTakes, FewerBounded DEF Bounded

\* A new entry, and the custodian.
LEMMA OverwriteBounded ==
  ASSUME NEW d, Bounded(d), NEW key, NEW kind, NEW value
  PROVE  Bounded(Custodian(Overwrite(d, key, kind, value)))
<1> DEFINE clear == IF key \in DOMAIN d.hash THEN Unlink(d, key) ELSE d
           id == NewId(clear)
           new == Entry(kind, <<Item(id, value)>>, FALSE)
           f == [key |-> key, id |-> id]
           h == [k \in DOMAIN clear.hash \union {key} |->
                   IF k = key THEN new ELSE clear.hash[k]]
           o == Overwrite(d, key, kind, value)
           e == Custodian(o)
<1>1. Bounded(clear) /\ key \notin DOMAIN clear.hash
  BY UnlinkBounded, UnlinkOK DEF Bounded
<1>2. DbOK(o) /\ DbOK(e)
  BY OverwriteOK, CustodianOK DEF Bounded
<1>3. o = [clear EXCEPT !.hash = h, !.fila = AtFront(@, f)]
  BY DEF Overwrite
<1> HIDE DEF clear, new, f
<1>4. o.hash = h /\ o.fila = AtFront(clear.fila, f)
  BY <1>1, <1>3 DEF Bounded, DbOK
<1>5. DOMAIN o.hash = DOMAIN clear.hash \union {key}
  BY <1>4
<1> HIDE DEF o, h
<1>6. /\ IsFiniteSet(DOMAIN o.hash)
      /\ Cardinality(DOMAIN clear.hash) \in Nat
      /\ Cardinality(DOMAIN o.hash) = Cardinality(DOMAIN clear.hash) + 1
  BY <1>1, <1>5, FS_AddElement, FS_CardinalityType DEF Bounded
<1>7. /\ DOMAIN e.hash \subseteq DOMAIN o.hash
      /\ Cardinality(DOMAIN o.hash) >= cache_max =>
              \/ Loose(e) = {}
              \/ /\ Len(o.fila) > 1
                 /\ \E k \in DOMAIN o.hash : k \notin DOMAIN e.hash
  BY <1>2, <1>6, CustodianTakes
<1> HIDE DEF e
<1>8. /\ IsFiniteSet(DOMAIN e.hash) /\ Cardinality(DOMAIN e.hash) \in Nat
      /\ Cardinality(DOMAIN e.hash) <= Cardinality(DOMAIN o.hash)
  BY <1>6, <1>7, FS_Subset, FS_CardinalityType
<1>9. ASSUME Loose(e) # {}
      PROVE  Cardinality(DOMAIN e.hash) < cache_max
  <2>1. CASE Cardinality(DOMAIN o.hash) < cache_max
    BY <1>6, <1>8, <2>1, RecurseAssumption
  <2>2. CASE ~ (Cardinality(DOMAIN o.hash) < cache_max)
    <3>1. Cardinality(DOMAIN o.hash) >= cache_max
      BY <1>6, <2>2, RecurseAssumption
    <3>2. /\ Len(o.fila) > 1
          /\ \E k \in DOMAIN o.hash : k \notin DOMAIN e.hash
      BY <1>7, <1>9, <3>1
    <3>3. Cardinality(DOMAIN e.hash) < Cardinality(DOMAIN o.hash)
      <4>1. Cardinality(DOMAIN e.hash) # Cardinality(DOMAIN o.hash)
        BY <1>6, <1>7, <3>2, FS_Subset
      <4> QED BY <1>6, <1>8, <4>1
    <3>4. Loose(clear) # {}
      <4>1. SUFFICES ASSUME Loose(clear) = {} PROVE FALSE
        OBVIOUS
      <4>2. ToSet(clear.fila) = {} /\ IsList(clear.fila)
        BY <1>1, <4>1 DEF Bounded, DbOK, FilaOK, Listed
      <4>3. PICK S : clear.fila \in Seq(S)
        BY <4>2 DEF IsList
      <4>4. Len(clear.fila) = 0
        <5>1. DOMAIN clear.fila = 1..Len(clear.fila) /\ Len(clear.fila) \in Nat
          BY <4>3
        <5>2. DOMAIN clear.fila = {}
          BY <4>2 DEF ToSet
        <5>3. 1 \notin 1..Len(clear.fila)
          BY <5>1, <5>2
        <5> QED BY <5>1, <5>3
      <4>5. clear.fila \in Seq(S \union {f}) /\ f \in S \union {f}
        BY <4>3
      <4>6. Len(o.fila) = 1
        <5>1. Len(AtFront(clear.fila, f)) = Len(clear.fila) + 1
          BY <4>5, AtFrontItems
        <5> QED BY <1>4, <4>4, <5>1
      <4> QED BY <3>2, <4>6
    <3>5. Cardinality(DOMAIN clear.hash) < cache_max
      BY <1>1, <3>4 DEF Bounded, Small
    <3> QED BY <1>6, <1>8, <3>3, <3>5, RecurseAssumption
  <2> QED BY <2>1, <2>2
<1>10. Bounded(e)
  BY <1>2, <1>8, <1>9 DEF Bounded, Small, e
<1> QED BY <1>10 DEF e, o

LEMMA RotatedBounded ==
  ASSUME NEW d, Bounded(d), NEW key \in DOMAIN d.hash
  PROVE  Bounded(Rotated(d, key))
<1> DEFINE r == d.hash[key]
           x == [r EXCEPT !.chain = Append(Tail(r.chain), Head(r.chain))]
           e == Rotated(d, key)
<1>1. DbOK(e)
  BY RotatedOK DEF Bounded
<1>2. e.hash = [d.hash EXCEPT ![key] = x]
  BY DEF Rotated, Bounded, DbOK
<1>3. x.hard = r.hard
  BY DEF Bounded, DbOK, HashOK, EntryFields
<1> HIDE DEF x, e
<1>4. Bounded(e)
  BY <1>1, <1>2, <1>3, ChangedBounded
<1> QED BY <1>4 DEF e

LEMMA AddIpBounded ==
  ASSUME NEW d, Bounded(d), NEW key, NEW value
  PROVE  Bounded(AddIp(d, key, value))
<1> DEFINE x == [d.hash[key] EXCEPT !.ip = value]
           e == AddIp(d, key, value)
<1>1. CASE e = d
  BY <1>1
<1>2. CASE e # d
  <2>1. key \in DOMAIN d.hash /\ e.hash = [d.hash EXCEPT ![key] = x]
    BY <1>2 DEF AddIp, Holds, Bounded, DbOK
  <2>2. x.hard = d.hash[key].hard
    BY <2>1 DEF Bounded, DbOK, HashOK, EntryFields
  <2>3. DbOK(e)
    BY AddIpOK DEF Bounded
  <2> HIDE DEF x, e
  <2>4. Bounded(e)
    BY <2>1, <2>2, <2>3, ChangedBounded
  <2> QED BY <2>4 DEF e
<1> QED BY <1>1, <1>2

LEMMA AgeBounded ==
  ASSUME Bounded(db), NEW key \in DOMAIN db.hash, Age(key)
  PROVE  Bounded(db')
<1>1. PICK age : db' = [db EXCEPT !.hash[key].age = age]
  BY DEF Age
<1> DEFINE x == [db.hash[key] EXCEPT !.age = age]
<1>2. db'.hash = [db.hash EXCEPT ![key] = x]
  BY <1>1 DEF Bounded, DbOK
<1>3. x.hard = db.hash[key].hard
  BY DEF Bounded, DbOK, HashOK, EntryFields
<1>4. DbOK(db')
  BY AgeOK DEF Bounded
<1> HIDE DEF x
<1> QED BY <1>2, <1>3, <1>4, ChangedBounded

LEMMA AddRecordOK ==
  ASSUME NEW d, Bounded(d), NEW key, NEW kind, NEW value, NEW append
  PROVE  Bounded(AddRecord(d, key, kind, value, append))
<1>1. Bounded(AddRr(d, key, kind, value, append))
  <2>1. CASE append /\ key \in DOMAIN d.hash
    BY <2>1, AppendToBounded, CustodianBounded DEF AddRr
  <2>2. CASE ~(append /\ key \in DOMAIN d.hash)
    BY <2>2, OverwriteBounded DEF AddRr
  <2> QED BY <2>1, <2>2
<1>2. Bounded(AddCloser(d, key, value, append))
  <2>1. CASE append /\ key \in DOMAIN d.hash
    BY <2>1, AppendToBounded DEF AddCloser
  <2>2. CASE ~(append /\ key \in DOMAIN d.hash)
    BY <2>2, OverwriteBounded DEF AddCloser
  <2> QED BY <2>1, <2>2
<1> QED BY <1>1, <1>2 DEF AddRecord

LEMMA AddRrOK ==
  ASSUME NEW d, Bounded(d), NEW key, NEW kind, kind # "NS", NEW value, NEW append
  PROVE  Bounded(AddRr(d, key, kind, value, append))
<1>1. Bounded(AddRecord(d, key, kind, value, append))
  BY AddRecordOK
<1> QED BY <1>1 DEF AddRecord

\* What the cache is after each record: the function of AddAll exists.
AddsUp(f, n, d, key, kind, values) ==
  f = [i \in 0..n |->
         IF i = 0 THEN d ELSE AddRecord(f[i - 1], key, kind, values[i], i > 1)]

LEMMA AddsUpExists ==
  ASSUME NEW n \in Nat, NEW d, NEW key, NEW kind, NEW values
  PROVE  \E f : AddsUp(f, n, d, key, kind, values)
<1> DEFINE T == {k \in Nat : ~ \E f : AddsUp(f, k, d, key, kind, values)}
           next(g, i) == IF i = 0 THEN d
                         ELSE AddRecord(g[i - 1], key, kind, values[i], i > 1)
<1>1. SUFFICES ASSUME T # {} PROVE FALSE
  OBVIOUS
<1>2. PICK k \in T : \A j \in T : k <= j
  <2>1. T \in SUBSET Nat
    OBVIOUS
  <2> HIDE DEF T
  <2> QED BY <1>1, <2>1, LeastNatural
<1>3. k # 0
  <2> DEFINE f == [i \in 0..0 |-> d]
  <2>1. f = [i \in 0..0 |-> next(f, i)]
    OBVIOUS
  <2> HIDE DEF f
  <2>2. AddsUp(f, 0, d, key, kind, values)
    BY <2>1 DEF AddsUp
  <2> QED BY <2>2
<1>4. k \in Nat /\ k - 1 \in Nat /\ k - 1 \notin T
  BY <1>2, <1>3
<1>5. PICK f : AddsUp(f, k - 1, d, key, kind, values)
  BY <1>4
<1> HIDE DEF T
<1> DEFINE g == [i \in 0..k |-> IF i = k THEN next(f, k) ELSE f[i]]
<1>6. \A i \in 0..(k - 1) : f[i] = next(f, i)
  BY <1>5 DEF AddsUp
<1>7. ASSUME NEW i \in 0..k PROVE g[i] = next(g, i)
  <2>1. i # 0 => i - 1 \in 0..k /\ i - 1 # k /\ i - 1 \in 0..(k - 1)
    BY <1>4
  <2>2. i # 0 => g[i - 1] = f[i - 1]
    <3> HIDE DEF next
    <3> QED BY <2>1
  <2>3. next(g, i) = next(f, i)
    <3> HIDE DEF g
    <3> QED BY <2>2
  <2>4. CASE i = k
    <3> HIDE DEF next
    <3> QED BY <2>3, <2>4
  <2>5. CASE i # k
    <3>1. i \in 0..(k - 1)
      BY <1>4, <2>5
    <3> HIDE DEF next
    <3> QED BY <1>6, <2>3, <2>5, <3>1
  <2> QED BY <2>4, <2>5
<1>8. g = [i \in 0..k |-> next(g, i)]
  <2>1. g = [i \in 0..k |-> g[i]]
    OBVIOUS
  <2> HIDE DEF g, next
  <2> QED BY <1>7, <2>1
<1> HIDE DEF g
<1>9. AddsUp(g, k, d, key, kind, values)
  BY <1>8 DEF AddsUp
<1> QED BY <1>2, <1>9 DEF T

LEMMA AddAllOK ==
  ASSUME NEW d, Bounded(d), NEW key, NEW kind, NEW values, Len(values) \in Nat
  PROVE  Bounded(AddAll(d, key, kind, values))
<1> DEFINE n == Len(values)
           Adds(f) == f = [i \in 0..n |->
                             IF i = 0 THEN d
                             ELSE AddRecord(f[i - 1], key, kind, values[i], i > 1)]
           added == CHOOSE f : Adds(f)
           T == {i \in 0..n : ~ Bounded(added[i])}
<1>1. Adds(added)
  <2>1. \E f : Adds(f)
    <3>1. \E f : AddsUp(f, n, d, key, kind, values)
      BY AddsUpExists
    <3>2. \A f : AddsUp(f, n, d, key, kind, values) => Adds(f)
      BY DEF AddsUp
    <3> HIDE DEF Adds
    <3> QED BY <3>1, <3>2
  <2> HIDE DEF Adds
  <2> QED BY <2>1
<1>2. AddAll(d, key, kind, values) = added[n]
  BY DEF AddAll
<1> HIDE DEF added
<1>3. \A i \in 0..n : added[i] = IF i = 0 THEN d
                        ELSE AddRecord(added[i - 1], key, kind, values[i], i > 1)
  BY <1>1
<1> HIDE DEF n, Adds
<1>4. T = {}
  <2>1. SUFFICES ASSUME T # {} PROVE FALSE
    OBVIOUS
  <2>2. PICK k \in T : \A j \in T : k <= j
    <3>1. T \in SUBSET Nat
      OBVIOUS
    <3> HIDE DEF T
    <3> QED BY <2>1, <3>1, LeastNatural
  <2>3. k \in 0..n /\ ~ Bounded(added[k])
    BY <2>2
  <2>4. k # 0
    BY <1>3, <2>3
  <2>5. k - 1 \in 0..n /\ k - 1 \notin T
    <3>1. n \in Nat /\ k \in Nat
      BY <2>3 DEF n
    <3>2. k - 1 \in 0..n /\ ~ (k <= k - 1)
      BY <2>3, <2>4, <3>1
    <3> HIDE DEF T
    <3> QED BY <2>2, <3>2
  <2>6. Bounded(added[k - 1])
    BY <2>5
  <2>7. added[k] = AddRecord(added[k - 1], key, kind, values[k], k > 1)
    BY <1>3, <2>3, <2>4
  <2> QED BY <2>3, <2>6, <2>7, AddRecordOK
<1>5. n \in 0..n
  BY DEF n
<1> QED BY <1>2, <1>4, <1>5

\* A reply from an entry, which becomes the newest.
LEMMA GivenOK ==
  ASSUME NEW d, Bounded(d), NEW key \in DOMAIN d.hash
  PROVE  Bounded(AfterReply(MoveToTop(d, key), key))
<1>1. Bounded(MoveToTop(d, key)) /\ key \in DOMAIN MoveToTop(d, key).hash
  BY MoveToTopBounded
<1> QED BY <1>1, RotatedBounded DEF AfterReply

-----------------------------------------------------------------------------
(***************************************************************************)
(* What a server says is a list of records, or two of them.                *)
(***************************************************************************)
SaysLists ==
  \A server, name, type : \A said \in Says(server, name, type) :
    /\ said.kind = "answer" => IsList(said.data)
    /\ said.kind = "referral" => IsList(said.names) /\ IsList(said.glue)

LEMMA GetsAnswerDb ==
  ASSUME SaysLists, Bounded(db), NEW c \in Client, GetsAnswer(c) PROVE Bounded(db')
<1> DEFINE f == Top(c)
<1>1. PICK said \in Says(f.server, f.name, f.type) :
        said.kind = "answer" /\ db' = AddAnswer(db, <<f.name, f.type>>, said.data)
  BY DEF GetsAnswer, Move
<1>2. Len(said.data) \in Nat
  BY <1>1, IsListLen DEF SaysLists
<1> QED BY <1>1, <1>2, AddAllOK DEF AddAnswer

LEMMA GetsReferralDb ==
  ASSUME SaysLists, Bounded(db), NEW c \in Client, GetsReferral(c) PROVE Bounded(db')
<1> DEFINE f == Top(c)
           names(said) == [i \in DOMAIN said.names |-> Server(said.names[i], NoIp)]
<1>1. PICK said \in Says(f.server, f.name, f.type) :
        /\ said.kind = "referral"
        /\ \/ db' = db
           \/ \E i \in DOMAIN said.glue :
                db' = AddClosers(db, said.zone, SubSeq(said.glue, 1, i - 1))
           \/ db' = AddClosers(db, said.zone, said.glue \o names(said))
  BY DEF GetsReferral, Move
<1>2. IsList(said.names) /\ IsList(said.glue)
  BY <1>1 DEF SaysLists
<1>3. PICK S : said.glue \in Seq(S)
  BY <1>2 DEF IsList
<1>4. \A i \in DOMAIN said.glue : Len(SubSeq(said.glue, 1, i - 1)) \in Nat
  <2> TAKE i \in DOMAIN said.glue
  <2>1. i \in 1..Len(said.glue)
    BY <1>3
  <2>2. SubSeq(said.glue, 1, i - 1) \in Seq(S)
    BY <1>3, <2>1
  <2> QED BY <2>2
<1>5. Len(said.glue \o names(said)) \in Nat
  <2> DEFINE T == {Server(said.names[i], NoIp) : i \in DOMAIN said.names}
             t == names(said)
  <2>1. PICK U : said.names \in Seq(U)
    BY <1>2 DEF IsList
  <2>2. t \in Seq(T)
    <3>1. DOMAIN said.names = 1..Len(said.names) /\ Len(said.names) \in Nat
      BY <2>1
    <3>2. \A i \in 1..Len(said.names) : t[i] \in T
      BY <3>1
    <3>3. t = [i \in 1..Len(said.names) |-> t[i]]
      BY <3>1
    <3> HIDE DEF T, t
    <3> QED BY <3>1, <3>2, <3>3
  <2> HIDE DEF t, T
  <2>3. said.glue \in Seq(S \union T) /\ t \in Seq(S \union T)
    BY <1>3, <2>2
  <2>4. said.glue \o t \in Seq(S \union T)
    BY <2>3
  <2>5. Len(said.glue \o t) \in Nat
    BY <2>4
  <2> QED BY <2>5 DEF t
<1> HIDE DEF names
<1> QED BY <1>1, <1>4, <1>5, AddAllOK DEF AddClosers

LEMMA FromNetworkDb ==
  ASSUME SaysLists, Bounded(db), NEW c \in Client, FromNetwork(c) PROVE Bounded(db')
<1>1. CASE GetsNothing(c) \/ GetsOther(c)
  BY <1>1 DEF GetsNothing, GetsOther, Move
<1>2. CASE GetsNegative(c)
  <2> DEFINE f == Top(c)
  <2>1. db' = AddRr(db, <<f.name, f.type>>, "NEG", NoIp, FALSE)
    BY <1>2 DEF GetsNegative, Move
  <2> QED BY <2>1, AddRrOK
<1>3. CASE GetsCname(c)
  <2> DEFINE key == <<Top(c).name, "CNAME">>
  <2>1. PICK said :
          LET d == AddRr(db, key, "RR", said.target, FALSE)
          IN IF Holds(d, key, {"RR"}) THEN db' = MoveToTop(d, key) ELSE db' = d
    BY <1>3 DEF GetsCname, Move
  <2> DEFINE d == AddRr(db, key, "RR", said.target, FALSE)
  <2>2. Bounded(d)
    BY AddRrOK
  <2>3. Holds(d, key, {"RR"}) => key \in DOMAIN d.hash
    BY DEF Holds
  <2>4. IF Holds(d, key, {"RR"}) THEN db' = MoveToTop(d, key) ELSE db' = d
    BY <2>1
  <2> HIDE DEF d, key
  <2> QED BY <2>2, <2>3, <2>4, MoveToTopBounded
<1> QED BY <1>1, <1>2, <1>3, GetsAnswerDb, GetsReferralDb DEF FromNetwork

LEMMA FromCacheDb ==
  ASSUME Bounded(db), NEW c \in Client, FromCache(c) PROVE Bounded(db')
<1>1. PICK key \in Hits(Top(c)) \union Cnames(Top(c)) :
        \/ db' = Unlink(MoveToTop(db, key), key)
        \/ GiveClient(c, key)
        \/ GiveCaller(c, key, key \in Cnames(Top(c)) /\ Top(c).type = "A")
  BY DEF FromCache, Move
<1>2. key \in DOMAIN db.hash
  BY DEF Hits, Cnames, Holds
<1>3. Bounded(MoveToTop(db, key)) /\ key \in DOMAIN MoveToTop(db, key).hash
  BY <1>2, MoveToTopBounded
<1>4. CASE db' = Unlink(MoveToTop(db, key), key)
  BY <1>3, <1>4, UnlinkBounded
<1>5. CASE GiveClient(c, key)
  BY <1>2, <1>5, GivenOK DEF GiveClient, Move
<1>6. CASE GiveCaller(c, key, key \in Cnames(Top(c)) /\ Top(c).type = "A")
  BY <1>3, <1>6 DEF GiveCaller, Move
<1> QED BY <1>1, <1>4, <1>5, <1>6

LEMMA AskZoneDb ==
  ASSUME Bounded(db), NEW c \in Client, AskZone(c) PROVE Bounded(db')
<1>1. PICK zone \in Closest(Top(c)) :
        db' = Unlink(db, <<zone, "NS">>) \/ db' = MoveToTop(db, <<zone, "NS">>)
  BY DEF AskZone, Move
<1>2. <<zone, "NS">> \in DOMAIN db.hash
  BY DEF Closest, Zones, Holds
<1> QED BY <1>1, <1>2, UnlinkBounded, MoveToTopBounded

LEMMA AnyEndsDb ==
  ASSUME Bounded(db), NEW c \in Client, AnyEnds(c) PROVE Bounded(db')
<1> DEFINE key(t) == <<Top(c).name, t>>
<1>1. \/ db' = db
      \/ \E t \in {"A", "MX"} : Holds(db, key(t), {"NEG"}) /\ db' = MoveToTop(db, key(t))
  BY DEF AnyEnds, Move
<1>2. \A t : Holds(db, key(t), {"NEG"}) => key(t) \in DOMAIN db.hash
  BY DEF Holds
<1> QED BY <1>1, <1>2, MoveToTopBounded

LEMMA RecurseDb ==
  ASSUME Bounded(db), NEW c \in Client, Recurse(c) PROVE Bounded(db')
<1>1. CASE TooDeep(c) \/ AnyA(c) \/ AnyMx(c) \/ AnyFails(c)
  BY <1>1 DEF TooDeep, AnyA, AnyMx, AnyAsks, AnyFails, Move
<1>2. CASE NoZone(c) \/ NoReply(c)
  BY <1>2 DEF NoZone, NoReply, Unanswered, Move
<1>3. CASE AskAddress(c)
  BY <1>3 DEF AskAddress, AskServer, Move
<1>4. CASE AskGlueless(c)
  BY <1>4 DEF AskGlueless, Move
<1>5. CASE Glueless(c)
  BY <1>5 DEF Glueless, AskServer, Move
<1>6. CASE Chased(c)
  <2> DEFINE key == <<Top(c).name, "CNAME">>
  <2>1. db' = db \/ db' = AddIp(db, key, Top(c).got.value)
    BY <1>6 DEF Chased, Move
  <2> HIDE DEF key
  <2> QED BY <2>1, AddIpBounded
<1> QED BY <1>1, <1>2, <1>3, <1>4, <1>5, <1>6, FromCacheDb, AskZoneDb, AnyEndsDb
        DEF Recurse

LEMMA LaunchThreadDb ==
  ASSUME Bounded(db), NEW c \in Client, LaunchThread(c) PROVE Bounded(db')
<1>1. ASSUME NEW d, Bounded(d), d.hash = db.hash, NEW key
      PROVE  Bounded(Seen(d, key)) /\ Seen(d, key).hash = db.hash
  BY <1>1, MoveToTopBounded DEF Seen, Held, Holds
<1>2. ASSUME NEW q, NEW key, NEW d, Bounded(d), d.hash = db.hash,
             AnswerAtOnce(c, q, key, d)
      PROVE  Bounded(db')
  <2>1. key \in DOMAIN d.hash
    BY <1>2 DEF AnswerAtOnce, Ready, Held, Holds
  <2> QED BY <1>2, <2>1, GivenOK DEF AnswerAtOnce
<1>3. PICK own, alias, q :
        \/ AnswerAtOnce(c, q, own, db)
        \/ AnswerAtOnce(c, q, alias, Seen(db, own))
        \/ db' = Seen(Seen(db, own), alias)
  BY DEF LaunchThread
<1>4. /\ Bounded(Seen(db, own)) /\ Seen(db, own).hash = db.hash
      /\ Bounded(Seen(Seen(db, own), alias))
  BY <1>1
<1> QED BY <1>2, <1>3, <1>4

LEMMA InitDb == ASSUME Init PROVE Bounded(db)
<1>1. /\ db = [hash |-> InitialHash, fila |-> << >>, custodian_mode |-> 0,
               exited |-> FALSE]
  BY DEF Init
<1>2. \A k \in DOMAIN InitialHash :
        DOMAIN InitialHash[k] = EntryFields /\ InitialHash[k].hard = TRUE
  <2>1. \A kind, chain : /\ DOMAIN Entry(kind, chain, TRUE) = EntryFields
                         /\ Entry(kind, chain, TRUE).hard = TRUE
    BY DEF Entry, EntryFields
  <2>2. \A k \in DOMAIN InitialHash : \E kind, chain :
          InitialHash[k] = Entry(kind, chain, TRUE)
    BY DEF InitialHash
  <2> QED BY <2>1, <2>2
<1> DEFINE h == InitialHash
<1> HIDE DEF h
<1>3. /\ DOMAIN db = {"hash", "fila", "custodian_mode", "exited"}
      /\ db.hash = h /\ db.exited = FALSE /\ db.fila = << >>
  BY <1>1 DEF h
<1>4. HashOK(db)
  BY <1>2, <1>3 DEF HashOK, h
<1>5. Listed(db) = {}
  BY <1>2, <1>3 DEF Listed, Loose, h
<1>6. FilaOK(<< >>, {})
  <2>1. << >> \in Seq({}) /\ Len(<< >>) = 0 /\ DOMAIN << >> = {}
    OBVIOUS
  <2> QED BY <2>1 DEF FilaOK, IsList, NoDuplicate, ToSet
<1>7. DbOK(db)
  BY <1>3, <1>4, <1>5, <1>6 DEF DbOK
<1>8. IsFiniteSet(DOMAIN h)
  <2> DEFINE key == [z \in DOMAIN Hardcoded |-> <<z, "NS">>]
             keys == {<<z, "NS">> : z \in DOMAIN Hardcoded}
  <2>1. DOMAIN h = keys
    BY DEF h, InitialHash
  <2>2. key \in Bijection(DOMAIN Hardcoded, keys)
    BY DEF Bijection, Injection, Surjection, IsInjective
  <2>3. ExistsBijection(DOMAIN Hardcoded, keys)
    BY <2>2 DEF ExistsBijection
  <2> HIDE DEF keys
  <2> QED BY <2>1, <2>3, FS_Bijection, RecurseAssumption
<1>9. Loose(db) = {}
  BY <1>2, <1>3 DEF Loose, h
<1> QED BY <1>3, <1>7, <1>8, <1>9 DEF Bounded, Small

LEMMA NextDb == ASSUME SaysLists, Bounded(db), [Next]_vars PROVE Bounded(db')
<1>1. ASSUME NEW c \in Client, SpawnThread(c) \/ Thread(c) PROVE db' = db
  BY <1>1 DEF SpawnThread, Thread, BeginThread, RecurseThread, EndThread
<1>2. ASSUME NEW c \in Client, LaunchThread(c) \/ Recurse(c) \/ FromNetwork(c)
      PROVE  Bounded(db')
  BY <1>2, LaunchThreadDb, RecurseDb, FromNetworkDb
<1>3. ASSUME NEW key \in DOMAIN db.hash, Age(key) PROVE Bounded(db')
  BY <1>3, AgeBounded
<1>4. ASSUME Done \/ UNCHANGED vars PROVE db' = db
  BY <1>4 DEF Done, vars
<1> QED BY <1>1, <1>2, <1>3, <1>4 DEF Next, Works

LEMMA FilaLength ==
  ASSUME NEW q, NEW listed, FilaOK(q, listed)
  PROVE  Range(q) = listed /\ Len(q) = Cardinality(listed)
<1>1. PICK S : q \in Seq(S)
  BY DEF FilaOK, IsList
<1>2. Len(q) \in Nat /\ DOMAIN q = 1..Len(q)
  BY <1>1
<1>3. Range(q) = listed
  BY DEF FilaOK, ToSet, Range
<1>4. q \in [1..Len(q) -> listed]
  <2>1. q = [i \in 1..Len(q) |-> q[i]]
    BY <1>1
  <2>2. \A i \in 1..Len(q) : q[i] \in listed
    BY <1>2, <1>3 DEF Range
  <2> QED BY <2>1, <2>2
<1>5. \A x \in listed : \E i \in 1..Len(q) : q[i] = x
  BY <1>2, <1>3 DEF Range
<1>6. \A i, j \in 1..Len(q) : q[i] = q[j] => i = j
  BY DEF FilaOK, NoDuplicate
<1>7. q \in Bijection(1..Len(q), listed)
  BY <1>4, <1>5, <1>6 DEF Bijection, Injection, Surjection, IsInjective
<1>8. ExistsBijection(1..Len(q), listed)
  BY <1>7 DEF ExistsBijection
<1> QED BY <1>2, <1>3, <1>8, FS_CountingElements

LEMMA AlwaysBounded == ASSUME SaysLists PROVE Spec => []Bounded(db)
<1>1. Init => Bounded(db)
  BY InitDb
<1>2. Bounded(db) /\ [Next]_vars => Bounded(db)'
  BY NextDb
<1> QED BY <1>1, <1>2, PTL DEF Spec

(***************************************************************************)
(* custodian, mhash_put_data, unlink_rr, unlink_closer, add_closer_jsip,   *)
(* udpsuccess: whatever servers say, however many threads add to the       *)
(* cache, replace what another one has added, let it get old or answer     *)
(* from it, what the custodian takes from the fila is in the hash, and     *)
(* each entry that may be removed is in the fila once, with the first      *)
(* record of its chain: the custodian never exits.                         *)
(***************************************************************************)
THEOREM FilaMatchesTheorem == ASSUME SaysLists PROVE Spec => []FilaMatches
<1>1. DbOK(db) => FilaMatches
  <2> SUFFICES ASSUME DbOK(db) PROVE FilaMatches
    OBVIOUS
  <2> DEFINE listed == {[key |-> k, id |-> FirstId(db, k)]
                          : k \in {k \in Keys : ~db.hash[k].hard}}
  <2>1. listed = Listed(db)
    BY DEF Listed, Loose, Element, Keys
  <2>2. FilaOK(db.fila, listed) /\ db.exited = FALSE
    BY <2>1 DEF DbOK
  <2> HIDE DEF listed
  <2>3. Range(db.fila) = listed /\ Len(db.fila) = Cardinality(listed)
    BY <2>2, FilaLength
  <2> QED BY <2>2, <2>3 DEF FilaMatches, listed
<1>2. Bounded(db) => DbOK(db)
  BY DEF Bounded
<1> QED BY <1>1, <1>2, AlwaysBounded, PTL

(***************************************************************************)
(* custodian: whatever servers say and however many threads add to it, the *)
(* cache has fewer than cache_max entries, unless none of those it has may *)
(* be removed (there are more hardcoded ones than that).                   *)
(***************************************************************************)
THEOREM CacheBoundedTheorem == ASSUME SaysLists PROVE Spec => []CacheBounded
<1>1. Bounded(db) => CacheBounded
  <2> SUFFICES ASSUME Bounded(db), Loose(db) = {} PROVE db.fila = << >>
    BY DEF Bounded, Small, CacheBounded, Keys
  <2>1. ToSet(db.fila) = {} /\ IsList(db.fila)
    BY DEF Bounded, DbOK, FilaOK, Listed
  <2>2. PICK S : db.fila \in Seq(S)
    BY <2>1 DEF IsList
  <2>3. DOMAIN db.fila = {}
    BY <2>1 DEF ToSet
  <2>4. 1 \notin 1..Len(db.fila) /\ Len(db.fila) \in Nat
    <3>1. DOMAIN db.fila = 1..Len(db.fila) /\ Len(db.fila) \in Nat
      BY <2>2
    <3> QED BY <2>3, <3>1
  <2>5. Len(db.fila) = 0
    BY <2>4
  <2> QED BY <2>2, <2>5
<1> QED BY <1>1, AlwaysBounded, PTL
=============================================================================
