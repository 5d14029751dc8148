------------------------- MODULE WalImplementsQueue -------------------------
(***************************************************************************)
(* The write-ahead log implements the at-least-once queue: what is behind  *)
(* the checkpoint is discharged, the rest of the log is pending, and the   *)
(* hard part is what the crashes under consideration cannot take.          *)
(***************************************************************************)
EXTENDS WalStorage

Queue == INSTANCE SpoolQueue WITH
  Items   <- [tkt : 1 .. MaxAttempts, id : 1 .. MaxAttempts,
              body : {"intact", "damaged"}],
  pending <- SubSeq(wal, Behind + 1, Total),
  hard    <- IF Surviving > Behind THEN Surviving - Behind ELSE 0,
  taken   <- seen

\* Every step of the log, its crashes, failed writes and restarts included,
\* is a step of the queue or changes nothing the queue shows.
ImplementsQueue == Queue!Spec
=============================================================================
