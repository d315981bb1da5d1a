-------------------------------- MODULE Csv2 --------------------------------
(***************************************************************************)
(* How MaraDNS reads the text of a csv2 zone file: csv2_read_rr and what   *)
(* it calls, over a stream of cells.                                       *)
(*                                                                         *)
(* A cell is a character, or a run of characters that every function here  *)
(* treats alike: a word of two letters or more, a number.  A reader is a   *)
(* record: the csv2_read stream (text, stack, just, seen, handling,        *)
(* allowed, newline, open), the csv2_add_state (ttl, origin, ostack,       *)
(* height, rrs) and what the last call gave: its status (res), the         *)
(* character it read (look), its string (word), the fields of rddata so    *)
(* far (data), and the record that csv2_read_rr has begun (owner, rrttl,   *)
(* rtype).  Each operator takes a reader to the one after the call.        *)
(*                                                                         *)
(* Left out: the limits on lengths, '{', CR and TAB, the default zone      *)
(* file.  What a number, an address or a name is converted to is the text  *)
(* it was written as; two texts stand for two values.                      *)
(***************************************************************************)
EXTENDS Integers, Sequences, SequencesExt

CONSTANTS
  Words,         \* letters
  Numbers,       \* digits
  Wide,          \* well-formed UTF-8 sequences
  Broken,        \* others
  Nybbles,       \* the digits and letters that a hexadecimal number may have
  Files          \* the files beside the zone file, by name

ASSUME CellsAssumption ==
  /\ Words \cap (Numbers \cup Wide \cup Broken) = {}
  /\ Numbers \cap (Wide \cup Broken) = {}
  /\ Wide \cap Broken = {}

\* The classes of characters.
Delimiter == {" ", "\n", "|"}
Alphanum == Words \cup Numbers
Text == Alphanum \cup Wide
Dname == Text \cup {"/"}
Dchar == Text \cup {"%"}
Fchar == Text \cup {"."}
Starwhitis == Text \cup {"*", "%"}
B4At == Alphanum \cup {"+", "%"}
TxtBchar == Alphanum \cup {"+", "%"}
TxtChar == TxtBchar \cup {";", "\\", "'"}
Wks == {",", " "}
Octal == Nybbles \cap Numbers

-----------------------------------------------------------------------------
(* Characters *)

Close(s) == [s EXCEPT !.open = FALSE]
Fail(s) == [s EXCEPT !.res = "fail"]
Error(s) == Fail(Close(s))
Ok(s) == [s EXCEPT !.res = "ok"]
Push(s) == [s EXCEPT !.data = Append(@, s.word)]
Onto(s) == [s EXCEPT !.word = Append(@, s.look)]

\* The rest of a call after a part of it: whatever that gave, and unless it failed.
After(s, Rest(_)) == Rest(s)
Then(s, Rest(_)) == IF s.res = "ok" THEN Rest(s) ELSE s
OrError(s) == IF s.res = "ok" THEN s ELSE Error(s)

PushFile(s, name) ==
  IF Len(s.stack) > 7 \/ name \notin DOMAIN Files THEN s
  ELSE [s EXCEPT !.stack = <<s.text>> \o @, !.text = Files[name], !.newline = TRUE]

\* A character that was read; a tilde where none may be closes the stream.
Advance(s, c) ==
  IF c # "~" THEN [s EXCEPT !.look = c, !.just = c]
  ELSE IF s.allowed THEN [s EXCEPT !.look = c, !.just = c, !.seen = @ + 1]
  ELSE Close([s EXCEPT !.look = c, !.seen = @ + 1])

RECURSIVE Readchar(_)
Readchar(s) ==
  IF ~s.open \/ (s.text = <<>> /\ s.stack = <<>> /\ ~s.newline)
  THEN [s EXCEPT !.look = "eof"]
  ELSE IF s.newline
  THEN [s EXCEPT !.newline = FALSE, !.look = "\n", !.just = "\n"]
  ELSE IF s.text = <<>>
  THEN Readchar([s EXCEPT !.text = Head(s.stack), !.stack = Tail(@)])
  ELSE Advance([s EXCEPT !.text = Tail(@)], Head(s.text))

\* csv2_justread: -1 on a closed stream; "start" stands for -328.
Justread(s) == IF s.open THEN s.just ELSE "closed"

ReadUnicode(s) ==
  After(Readchar(s), LAMBDA r : IF r.look \in Broken THEN Error(r) ELSE r)

RECURSIVE ToEndOfLine(_)
ToEndOfLine(s) ==
  After(Readchar(s), LAMBDA r :
    IF r.look \in {"\n", "eof"} THEN r
    ELSE ToEndOfLine([r EXCEPT !.seen = IF r.look = "~" THEN @ - 1 ELSE @]))

ProcessComment(s) ==
  [ToEndOfLine([s EXCEPT !.allowed = TRUE]) EXCEPT !.allowed = s.allowed]

AfterComment(s) == IF s.look = "#" THEN ProcessComment(s) ELSE s

-----------------------------------------------------------------------------
(* Between fields and records *)

\* How many tildes there may be before a record.
Permitted(handling) ==
  CASE handling = 101 -> {0} [] handling = 102 -> {0, 1} [] handling = 103 -> {1}

TildeProcessing_late(s) ==           \* Mutant: the first gap decides nothing
  IF s.handling = 0 THEN s
  ELSE IF s.handling <= 3 THEN [s EXCEPT !.handling = @ + 100]
  ELSE IF s.seen \notin Permitted(s.handling) THEN Error(s)
  ELSE [s EXCEPT !.allowed = FALSE]

TildeProcessing(s) ==
  IF s.handling = 0 THEN s
  ELSE IF s.handling <= 3 THEN [s EXCEPT !.handling = @ + 100]
  ELSE IF s.seen \notin Permitted(s.handling) THEN Error(s)
  ELSE [s EXCEPT !.allowed = FALSE,
                 !.handling = CASE @ = 102 /\ s.seen = 1 -> 103
                                [] @ = 102 /\ s.seen = 0 -> 101
                                [] OTHER -> @]

\* The loop of csv2_get_1st: to the first character of "is_ok".
RECURSIVE Search(_, _, _)
Search(s, piped, is_ok) ==
  Then(ReadUnicode(s), LAMBDA r :
    IF r.look = "eof" THEN [r EXCEPT !.res = "end"]
    ELSE IF r.look \in is_ok THEN r
    ELSE IF r.look = "#" \/ (r.look \in Delimiter /\ ~(r.look = "|" /\ piped))
    THEN Search(AfterComment(r), piped \/ r.look = "|", is_ok)
    ELSE Error(r))

\* The same loop with option 1, where a record or a slash command may begin.
Host == Starwhitis \cup {"/"}
RECURSIVE SearchHost(_, _, _)
SearchHost(s, last, piped) ==
  Then(ReadUnicode(s), LAMBDA r :
    IF r.look = "eof" THEN [r EXCEPT !.res = "end"]
    ELSE IF r.look \in Host /\ last \notin {"\n", "start"} THEN Error(r)
    ELSE IF r.look \in Host \cup {"."} THEN TildeProcessing(r)
    ELSE IF \/ r.look = "#"
            \/ r.look = "~" /\ r.handling > 100
            \/ r.look \in Delimiter /\ ~(r.look = "|" /\ piped)
    THEN SearchHost(AfterComment(r), IF r.look = "#" THEN "\n" ELSE r.look, piped \/ r.look = "|")
    ELSE Error(r))

Get1st(s, is_ok) ==
  LET in == Justread(s)
  IN IF in \in is_ok THEN [s EXCEPT !.look = in]
     ELSE IF in \notin Delimiter \cup {"start"} /\ ~(in = "~" /\ s.handling = 103)
     THEN Error(s)
     ELSE Search(s, in = "|", is_ok)

Get1stHost(s) ==
  LET in == Justread(s)
      r == [s EXCEPT !.allowed = CASE s.handling = 101 -> FALSE
                                   [] s.handling \in {102, 103} -> TRUE
                                   [] OTHER -> @,
                     !.seen = IF in = "~" THEN 1 ELSE 0]
  IN IF in = "." THEN TildeProcessing(s)
     ELSE IF in \notin Delimiter \cup {"start"} /\ ~(in = "~" /\ s.handling = 103)
     THEN Error(s)
     ELSE SearchHost(r, in, in = "|")
-----------------------------------------------------------------------------
(* Words and names *)

Process1stchar(s, is_ok) ==
  LET look == Justread(s)
  IN IF look \notin is_ok THEN Error(s) ELSE [s EXCEPT !.word = <<look>>]

RECURSIVE Letters(_, _)
Letters(s, is_ok) ==
  Then(ReadUnicode(s), LAMBDA r :
    IF r.look \in Delimiter \cup {"#"} THEN AfterComment(r)
    ELSE IF r.look \in is_ok THEN Letters(Onto(r), is_ok)
    ELSE Error(r))

ProcessSomething(s, is_ok) ==
  Then(Process1stchar(s, is_ok), LAMBDA r : Letters(r, is_ok))

GetSomething(s, is_ok) ==
  Then(Get1st(s, is_ok), LAMBDA r : ProcessSomething(r, is_ok))

\* The loop of js_append_dname; where is what may come next.
RECURSIVE Labels(_, _)
Labels(s, where) ==
  Then(ReadUnicode(s), LAMBDA r :
    CASE r.look = "." /\ where \in {"label", "star"} -> Labels(Onto(r), "dot")
      [] r.look \in Dname /\ where \in {"label", "dot", "at"} -> Labels(Onto(r), "label")
      [] r.look = "#" /\ where = "dot" -> ProcessComment(r)
      [] r.look = "%" /\ where \in {"dot", "at"} -> ReadUnicode(Onto(r))
      [] r.look \in Delimiter /\ where \in {"dot", "at"} -> r
      [] OTHER -> Error(r))

\* js_append_dname of a name that may begin with a star (starwhitis 1) or not (3).
AppendDname(s, starwhitis) ==
  LET look == Justread(s)
  IN IF look \in {"%", "."} THEN ReadUnicode(s)
     ELSE IF look \in Dname THEN Labels(s, "label")
     ELSE IF look = "*" /\ starwhitis = 1 THEN Labels(s, "star")
     ELSE Error(s)

Substituted(name, psub) ==
  IF name # <<>> /\ Last(name) = "%" THEN Front(name) \o psub ELSE name

ConvertPercent(s, psub) == [s EXCEPT !.word = Substituted(@, psub)]
WithOrigin(s) == ConvertPercent(s, s.origin)

\* csv2_get_hostname up to csv2_convert_percent.
Hostname(s, starwhitis) ==
  Then(Process1stchar(s, Starwhitis \cup {"."}), LAMBDA r : AppendDname(r, starwhitis))

GetHostname(s, starwhitis) == Then(Hostname(s, starwhitis), WithOrigin)

\* A field that is a name, as the callers of csv2_get_hostname read one.
DnameField(s) == Then(Get1st(s, Dchar), LAMBDA r : Hostname(r, 3))
NameField(s) == Then(Then(DnameField(s), WithOrigin), Push)

\* csv2_get_num; with serial it may be "/serial", as in a SOA record.
SerialNum(s) ==
  IF s.look # "serial" THEN Fail(s)
  ELSE After(ReadUnicode(s), LAMBDA r :
         IF r.look \in Delimiter THEN [r EXCEPT !.word = <<"/serial">>] ELSE Fail(r))

GetNum(s, serial) ==
  Then(Get1st(s, Numbers \cup {"/"}), LAMBDA r :
    IF Justread(r) # "/" THEN ProcessSomething(r, Numbers)
    ELSE IF serial THEN SerialNum(ReadUnicode(r)) ELSE Fail(r))

NumField(s) == Then(GetNum(s, FALSE), Push)
SerialField(s) == Then(GetNum(s, TRUE), Push)

\* process_mbox: what is before "@", or before the first dot.
RECURSIVE BeforeAt(_)
BeforeAt(s) ==
  Then(ReadUnicode(s), LAMBDA r :
    CASE r.look = "@" -> Labels(Onto(r), "at")
      [] r.look = "." ->
           After(ReadUnicode(Onto(r)), LAMBDA t : IF t.look \in Text THEN Labels(Onto(t), "label") ELSE Error(t))
      [] r.look \in B4At -> BeforeAt(Onto(r))
      [] OTHER -> Error(r))

ProcessMbox(s) ==
  Then(Process1stchar(s, Alphanum \cup {"."}), LAMBDA r :
    IF r.word # <<".">> THEN BeforeAt(r)
    ELSE After(ReadUnicode(r), LAMBDA t : IF t.look \in Delimiter THEN t ELSE Error(t)))

MboxField(s) ==
  Then(Then(Then(Get1st(s, Alphanum \cup {"."}), ProcessMbox), WithOrigin), Push)
-----------------------------------------------------------------------------
(* Addresses and numbers *)

RECURSIVE Octets(_, _)
Octets(s, num_nums) ==
  Then(ReadUnicode(s), LAMBDA r :
    CASE r.look \in Numbers -> Octets(Onto(r), num_nums)
      [] r.look = "." /\ num_nums < 4 -> Octets(Onto(r), num_nums + 1)
      [] r.look \in Delimiter \cup {"#"} /\ num_nums = 4 -> AfterComment(r)
      [] OTHER -> Error(r))

ProcessIpv4Ddip(s) == Then(Process1stchar(s, Numbers), LAMBDA r : Octets(r, 1))

GetA(s) == Then(Then(Get1st(s, Numbers), ProcessIpv4Ddip), Push)

GetAaaa(s) == Then(GetSomething(s, Nybbles \cup Numbers \cup {":"}), Push)

\* The bytes of a hexadecimal number; letters count from 0, not from 10.
Nybble(c) == IF c = "a" THEN "0" ELSE c

RECURSIVE SkipDots(_)
SkipDots(s) == IF s.look = "." THEN SkipDots(ReadUnicode(s)) ELSE s

RECURSIVE HexBytes(_)
HexBytes(s) ==
  After(SkipDots(ReadUnicode(s)), LAMBDA left :
    IF left.look \in Delimiter \cup {"eof"} THEN left
    ELSE After(ReadUnicode(left), LAMBDA right :
           IF left.look \in Nybbles /\ right.look \in Nybbles
           THEN HexBytes([right EXCEPT !.word = @ \o <<Nybble(left.look), Nybble(right.look)>>])
           ELSE Error(right)))

GetHex(s) ==
  Then(Then(Get1st(s, Numbers), LAMBDA r :
    IF Justread(r) # "0" THEN Fail(r)
    ELSE After(ReadUnicode(r), LAMBDA t : IF t.look = "x" THEN HexBytes([t EXCEPT !.word = <<>>]) ELSE Fail(t))),
  Push)

-----------------------------------------------------------------------------
(* Records whose data are several fields *)

\* csv2_get_mx: a preference, unless the type gives one, and one or two names.
GetMx(s, pref, hlabels) ==
  Then(IF pref = "" THEN NumField(s) ELSE [s EXCEPT !.data = <<<<pref>>>>], LAMBDA r :
    IF hlabels = 2 THEN Then(NameField(r), NameField) ELSE NameField(r))

GetSrv(s) == Then(Then(Then(NumField(s), NumField), NumField), NameField)

GetMbox(s, count) == IF count = 2 THEN Then(MboxField(s), MboxField) ELSE MboxField(s)

GetSoa(s) ==
  Then(Then(Then(Then(Then(Then(
    NameField(s), MboxField), SerialField), NumField), NumField), NumField), NumField)

\* Where csv2_get_wks and csv2_get_loc stop: at the end of a line, or at a tilde.
Ended(s) == s.look = IF s.handling = 103 THEN "~" ELSE "\n"
AtEnd(s) == Ended(s) \/ (s.handling # 103 /\ s.look \in {"eof", "#"})
Blank(s) == s.look \in Wks \/ (s.handling = 103 /\ s.look = "\n")
AllowTilde(s) == [s EXCEPT !.allowed = @ \/ s.handling = 103]

\* The port that is being read when the line ends is not kept.
RECURSIVE Ports(_, _)
Ports(s, num) ==
  IF AtEnd(s) THEN AfterComment(s)
  ELSE IF s.look = "#" THEN Ports(ReadUnicode(ProcessComment(s)), num)
  ELSE IF s.look \in Numbers THEN Ports(ReadUnicode(s), Append(num, s.look))
  ELSE IF Blank(s) /\ Len(s.data) < 12 THEN Ports(ReadUnicode([s EXCEPT !.data = Append(@, num)]), <<>>)
  ELSE Fail(s)

GetWks(s) ==
  Then(Then(Then(GetA(s), NumField), LAMBDA r : Get1st(r, Numbers)), LAMBDA r : Ports(AllowTilde(r), <<>>))

\* csv2_get_int; the character after the number has been read.
RECURSIVE Digits(_, _)
Digits(s, decimals) ==
  IF s.look \notin Numbers \cup {"."} THEN s
  ELSE After(ReadUnicode(Onto(s)), LAMBDA r :
         CASE s.look \in Numbers -> Digits(r, decimals)
           [] s.look = "." /\ decimals /\ r.look \in Numbers -> ReadUnicode(Onto(r))
           [] OTHER -> r)

GetInt(s, decimals) ==
  After([s EXCEPT !.word = <<>>, !.look = Justread(s)], LAMBDA r :
    Digits(IF r.look = "-" THEN ReadUnicode(Onto(r)) ELSE r, decimals))

\* csv2_get_lon_lat; what it gives back after any failure is 0, and its
\* caller goes on.
RECURSIVE Units(_, _, _)
Units(s, directions, unit) ==
  CASE Justread(s) \in Numbers /\ unit <= 3 ->
         Then(Get1st(Push(GetInt(s, unit = 3)), Alphanum), LAMBDA r : Units(r, directions, unit + 1))
    [] Justread(s) \in directions -> ReadUnicode([s EXCEPT !.data = Append(@, <<Justread(s)>>)])
    [] OTHER -> Fail(s)

LonLat(s, directions) == Then(Get1st(s, Numbers), LAMBDA r : Units(r, directions, 1))

Coordinate(s, directions) ==
  After(LonLat([s EXCEPT !.data = <<>>], directions), LAMBDA r :
    [Ok(r) EXCEPT !.data = Append(s.data, IF r.res = "ok" THEN FlattenSeq(r.data) ELSE <<>>)])

\* Size and precisions, up to three numbers; num is the one being read.
RECURSIVE Precisions(_, _)
Precisions(s, num) ==
  LET ends == num # <<>> /\ s.look \in Wks \cup {"\n", "eof", "#"}
      left == IF ends THEN <<>> ELSE IF s.look \in Numbers THEN Append(num, s.look) ELSE num
  IN After([s EXCEPT !.data = IF ends THEN Append(@, num) ELSE @], LAMBDA r :
       IF Len(r.data) > 6 THEN Fail(r)
       ELSE IF AtEnd(r) THEN AfterComment(r)
       ELSE IF r.look \in Wks \cup Numbers \cup {"m", "#"} \/ Blank(r)
       THEN Precisions(ReadUnicode(AfterComment(r)), left)
       ELSE Fail(r))

GetLoc(s) ==
  After(Coordinate(Coordinate(s, {"n", "s"}), {"e", "w"}), LAMBDA place :
    After(ReadUnicode(Push(GetInt(Ok(Get1st(place, Numbers \cup {"-"})), TRUE))), LAMBDA r :
      Precisions(AllowTilde(IF r.look = "m" THEN ReadUnicode(r) ELSE r), <<>>)))
-----------------------------------------------------------------------------
(* Text: TXT and the records that are written like it. chunks is how many  *)
(* chunks there have to be, 0 for any number, -1 for data that are not in  *)
(* chunks (RAW); post is true when fields follow (NAPTR).                  *)

FinalizeTxt(s, chunks) ==
  LET r == Push(s)
  IN IF chunks > 0 /\ Len(r.data) # chunks THEN Error(r) ELSE r

NextChunk(s) == [Push(s) EXCEPT !.word = <<>>]

\* What ends a text outside of quotes.
TextEnds(s, chunks, post) ==
  \/ s.look = "eof"
  \/ s.look \in Delimiter /\ (s.handling # 103 \/ chunks = -1 \/ post)
  \/ s.look = "~" /\ s.handling = 103 /\ ~post

\* What each state of csv2_get_string does with the character that was read:
\* the next state, or "stop", and the reader.
InText(r, chunks, post) ==
  LET in == r.look
  IN CASE in \in TxtBchar -> <<"text", Onto(r)>>
       [] TextEnds(r, chunks, post) -> <<"stop", FinalizeTxt(r, chunks)>>
       [] in = "\\" -> <<"bslash", r>>
       [] in = "'" -> <<"quote", r>>
       [] in = ";" /\ chunks # -1 -> <<"text", NextChunk(r)>>
       [] in \in Delimiter \ {"|"} /\ ~TextEnds(r, chunks, post) -> <<"between", r>>
       [] in = "#" /\ r.handling = 103 -> <<"text", ProcessComment(r)>>
       [] in = "#" /\ r.handling # 103 -> <<"stop", FinalizeTxt(ProcessComment(r), chunks)>>
       [] OTHER -> <<"stop", Error(r)>>

InQuote(r) ==
  IF r.look = "'" THEN <<"text", r>>
  ELSE IF r.handling = 103 /\ r.look \in {"#", "|", "~", "\n"} THEN <<"stop", Error(r)>>
  ELSE <<"quote", Onto(r)>>

InBackslash(r) ==
  LET in == r.look
  IN CASE in = "'" -> <<"text", Onto(r)>>
       [] in = "#" -> <<"gap", ProcessComment(r)>>
       [] in \in Delimiter \ {"|"} -> <<"gap", r>>
       [] in \in Octal -> <<"octal", Onto([r EXCEPT !.word = Append(@, "octal")])>>
       [] in = "x" -> <<"hex", [r EXCEPT !.word = Append(@, "hex")]>>
       [] OTHER -> <<"stop", Error(r)>>

\* After a backslash and a blank.
InGap(r) ==
  LET in == r.look
  IN CASE in \in TxtBchar -> <<"text", Onto(r)>>
       [] in = "'" -> <<"quote", r>>
       [] in = "\\" -> <<"bslash", r>>
       [] in = "#" -> <<"gap", ProcessComment(r)>>
       [] in \in Delimiter \ {"|"} -> <<"gap", r>>
       [] OTHER -> <<"stop", Error(r)>>

InEscape(r, state) ==
  CASE state = "octal" /\ r.look \in Octal -> <<"octal2", Onto(r)>>
    [] state = "octal2" /\ r.look \in Octal -> <<"text", Onto(r)>>
    [] state = "hex" /\ r.look \in Nybbles -> <<"hex2", Onto(r)>>
    [] state = "hex2" /\ r.look \in Nybbles -> <<"text", Onto(r)>>
    [] OTHER -> <<"stop", Error(r)>>

BetweenChunks(r, chunks) ==
  LET in == r.look
  IN CASE in = "#" -> <<"between", ProcessComment(r)>>
       [] in \in {"~", "eof"} -> <<"stop", FinalizeTxt(r, chunks)>>
       [] in = "'" -> <<"quote", NextChunk(r)>>
       [] in = "\\" -> <<"bslash", NextChunk(r)>>
       [] in \in Delimiter \ {"|"} -> <<"between", r>>
       [] OTHER -> <<"stop", Error(r)>>

RECURSIVE String(_, _, _, _)
String(s, state, chunks, post) ==
  LET Step(r) ==
        CASE state = "text" -> InText(r, chunks, post)
          [] state = "between" -> BetweenChunks(r, chunks)
          [] r.look = "eof" -> <<"stop", Error(r)>>
          [] state = "quote" -> InQuote(r)
          [] state = "bslash" -> InBackslash(r)
          [] state = "gap" -> InGap(r)
          [] OTHER -> InEscape(r, state)
  IN After(Step(ReadUnicode(s)), LAMBDA step :
       IF step[1] = "stop" THEN step[2] ELSE String(step[2], step[1], chunks, post))

\* The state that the first character leads to.
FirstOfString(s, chunks) ==
  CASE s.look \in TxtBchar -> <<"text", Onto([s EXCEPT !.word = <<>>])>>
    [] s.look = "\\" -> <<"bslash", [s EXCEPT !.word = <<>>]>>
    [] s.look = "'" -> <<"quote", [s EXCEPT !.word = <<>>]>>
    [] s.look = ";" /\ chunks # -1 -> <<"text", NextChunk([s EXCEPT !.word = <<>>])>>
    [] OTHER -> <<"stop", Error(s)>>

GetString(s, chunks, post) ==
  Then(Get1st(AllowTilde(s), TxtChar), LAMBDA r :
    After(FirstOfString(r, chunks), LAMBDA step :
      IF step[1] = "stop" THEN step[2] ELSE String(step[2], step[1], chunks, post)))

\* The name of a NAPTR record gets an empty zone for its percent.
GetNaptr(s) ==
  LET Flags(r) == After(GetString([r EXCEPT !.data = <<>>], 3, TRUE), LAMBDA t : [t EXCEPT !.data = r.data \o @])
      Convert(r) == ConvertPercent(r, <<>>)
  IN Then(Then(Then(Then(Then(NumField(s), NumField), Flags), DnameField), Convert), Push)

-----------------------------------------------------------------------------
(* Records *)

\* csv2_get_rtype: the type, <<"raw", number>> for a RAW record.
RECURSIVE GetRtype(_)
GetRtype(s) ==
  Then(Get1st(s, Words), LAMBDA first :
    Then(ProcessSomething(first, Text), LAMBDA r :
      CASE r.word = <<"in">> -> GetRtype(r)
        [] r.word = <<"raw">> -> Then(GetNum(r, FALSE), LAMBDA num : [num EXCEPT !.word = <<"raw">> \o @])
        [] OTHER -> r))

\* Types that no record has: IXFR, AXFR, MAILB, MAILA, ANY, A6, DNAME, OPT.
NotData == {"251", "252", "253", "254", "255", "38", "39", "41"}

\* What cannot come first while it is open whether there are tildes.
Undecided(s) == s.handling = 102

GetData(s) ==
  LET Is(types) == \E t \in types : s.word = <<t>>
  IN CASE Is({"a", "fqdn4"}) -> GetA(s)
       [] Is({"aaaa", "fqdn6"}) -> GetAaaa(s)
       [] Is({"soa"}) -> GetSoa(s)
       [] Is({"mx", "afsdb", "rt"}) -> GetMx(s, "", 1)
       [] Is({"px"}) -> GetMx(s, "", 2)
       [] Is({"md"}) -> GetMx(s, "0", 1)
       [] Is({"mf"}) -> GetMx(s, "10", 1)
       [] Is({"srv"}) -> GetSrv(s)
       [] Is({"txt", "spf", "x25", "isdn"}) /\ ~Undecided(s) -> GetString(s, 0, FALSE)
       [] Is({"wks"}) /\ ~Undecided(s) -> GetWks(s)
       [] Is({"loc"}) /\ ~Undecided(s) -> GetLoc(s)
       [] Is({"hinfo"}) -> GetString(s, 2, FALSE)
       [] Is({"gpos"}) -> GetString(s, 3, FALSE)
       [] Is({"mg", "mr"}) -> GetMbox(s, 1)
       [] Is({"minfo", "rp"}) -> GetMbox(s, 2)
       [] Is({"ns", "cname", "ptr", "nsap-ptr", "mb"}) -> NameField(s)
       [] Is({"nsap"}) -> GetHex(s)
       [] Is({"naptr"}) -> GetNaptr(s)
       [] Len(s.word) = 2 /\ s.word[2] \notin NotData -> GetString(s, -1, FALSE)
       [] OTHER -> Error(s)

AddRr(s) ==
  [s EXCEPT !.rrs = Append(@,
     [name |-> s.owner, ttl |-> s.rrttl, data |-> s.data,
      type |-> IF s.rtype \in {<<"md">>, <<"mf">>} THEN <<"mx">> ELSE s.rtype])]

\* A record with an address and no type is added whatever csv2_get_a gave;
\* csv2_add_rr refuses one without data.
ReadAddress(s) ==
  After(GetA(s), LAMBDA r : IF r.res = "ok" THEN AddRr([r EXCEPT !.rtype = <<"a">>]) ELSE Ok(r))

TypedData(s) == GetData([s EXCEPT !.rtype = s.word])

ReadData(s) == Then(OrError(Then(GetRtype(s), TypedData)), AddRr)

\* What follows the name, and the TTL if there is one.
ReadFields(s) ==
  After([s EXCEPT !.data = <<>>], LAMBDA r : IF Justread(r) \in Words THEN ReadData(r) ELSE ReadAddress(r))

ReadTtl(s) ==
  IF Justread(s) # "+" THEN [s EXCEPT !.rrttl = s.ttl]
  ELSE Then(OrError(GetNum(ReadUnicode(s), FALSE)), LAMBDA r :
         OrError(Get1st([r EXCEPT !.rrttl = r.word], Alphanum)))

ReadName(s) ==
  Then(OrError(GetHostname(s, 1)), LAMBDA r :
    OrError(Get1st([r EXCEPT !.owner = r.word], Alphanum \cup {"+"})))

ReadRecord(s) == Then(Then(ReadName(s), ReadTtl), ReadFields)
-----------------------------------------------------------------------------
(* Slash commands *)

\* The argument of /origin and of /opush.
NewOrigin(s) ==
  OrError(Then(Then(Then(Get1st(s, Dchar), LAMBDA r : Process1stchar(r, Starwhitis)),
                    LAMBDA r : AppendDname(r, 3)), WithOrigin))

Ttl(s) == Then(OrError(GetNum(s, FALSE)), LAMBDA r : [r EXCEPT !.ttl = r.word])

Origin(s) == Then(NewOrigin(s), LAMBDA r : [r EXCEPT !.origin = r.word])

\* height counts what was ever pushed: csv2_read_rr does not take /opop off it.
Opush(s) ==
  Then(NewOrigin(s), LAMBDA r :
    IF r.height > 7 THEN Error(r)
    ELSE [r EXCEPT !.height = @ + 1, !.ostack = <<s.origin>> \o @, !.origin = r.word])

Opop_zone(s) ==                      \* Mutant: back to the bottom of the stack
  IF s.height < 1 \/ s.ostack = <<>> THEN Error(s)
  ELSE [s EXCEPT !.origin = Last(s.ostack), !.ostack = Tail(@)]

Opop(s) ==
  IF s.height < 1 \/ s.ostack = <<>> THEN Error(s)
  ELSE [s EXCEPT !.origin = Head(s.ostack), !.ostack = Tail(@)]

RECURSIVE SkipToTilde(_)
SkipToTilde(s) ==
  After(Readchar(s), LAMBDA r : IF r.look \in {"~", "\n", "eof"} THEN r ELSE SkipToTilde(r))

\* /read goes on whatever csv2_get_filename and csv2_push_file give.
Read(s) ==
  After(GetSomething(s, Fchar), LAMBDA r :
    After(SkipToTilde([Ok(r) EXCEPT !.allowed = TRUE]), LAMBDA t :
      IF r.res = "ok" THEN PushFile(t, r.word) ELSE t))

Command(command, s) ==
  IF s.look \notin Delimiter THEN Error(s)
  ELSE CASE command = "ttl" -> Ttl(s)
         [] command = "origin" -> Origin(s)
         [] command = "opush" -> Opush(s)
         [] command = "opop" -> Opop(s)
         [] command = "read" -> Read(s)
         [] OTHER -> Error(s)

SlashCommand(s) == After(ReadUnicode(s), LAMBDA r : Command(r.look, ReadUnicode(r)))

-----------------------------------------------------------------------------
(* csv2_read_rr: slash commands, then one record. *)

RECURSIVE ReadRr(_)
ReadRr(s) ==
  Then(Get1stHost(s), LAMBDA r :
    IF Justread(r) # "/" THEN ReadRecord(r) ELSE Then(SlashCommand(r), LAMBDA t : ReadRr(t)))

\* csv2_open, and the state that a zone begins with.
Open(text, zone, handling) ==
  [text |-> text, stack |-> <<>>, just |-> "start", look |-> "", seen |-> 0,
   handling |-> handling, allowed |-> handling = 0, newline |-> FALSE, open |-> TRUE,
   res |-> "ok", word |-> <<>>, data |-> <<>>, owner |-> <<>>, rrttl |-> <<>>, rtype |-> <<>>,
   ttl |-> <<"86400">>, origin |-> zone, ostack |-> <<>>, height |-> 0, rrs |-> <<>>]
=============================================================================
