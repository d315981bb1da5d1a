SPECIFICATION Spec
CONSTANTS
  Zone <- MC_Zone
  Files <- MC_Files
  DefaultFiles <- MC_DefaultFiles
  SynthIp <- MC_SynthIp
  Query <- MC_Query
  Patient <- MC_Patient
  Mararc <- MC_Mararc
INVARIANT
  WholeRRset
