------------------------------ MODULE MCLogHub ------------------------------
(***************************************************************************)
(* LogHub on entries that meet every case of the indices: two traces and   *)
(* two services that cross, an entry without a trace, one without a        *)
(* service (it takes its topic), and blank fields.                         *)
(***************************************************************************)
EXTENDS LogHub

Entry(topic, service, trace, level) ==
  [topic |-> topic, service |-> service, trace |-> trace, level |-> level]

MCInputs ==
  { Entry("a", "a", "t1", "ERROR"), Entry("a", "b", "t1", " "),
    Entry("b", "a", "t2", ""),      Entry("a", "", "", "INFO"),
    Entry("b", " ", " ", "ERROR") }
=============================================================================
