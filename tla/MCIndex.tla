------------------------------ MODULE MCIndex -------------------------------
(* Small instances of IndexLifecycle. *)
EXTENDS IndexLifecycle

\* Bound: no process opens the index between another's verdict that it is damaged and the end
\* of that one's quarantine.  (Nothing looks again at that point: the index would be moved
\* aside under the process that opened it, or lose its dirty marker.)
Apart ==
  \A p, q \in Procs :
    phase[p] \in {"condemned", "quarantined"} /\ held'[q] = "here" => held[q] = "here"

MCNext == Next /\ Apart
MCSpec == Init /\ [][MCNext]_vars

\* An index that some process has open carries the dirty marker; and what is on disk, in
\* memory and in the markers stays in its domain.
MarkedWhileOpen == TypeOK /\ OpenIsMarked
=============================================================================
