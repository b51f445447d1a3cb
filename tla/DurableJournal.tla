--------------------------- MODULE DurableJournal ---------------------------
(* What the evidence journal promises to those who write to it: it only     *)
(* grows, what was acknowledged is in it, and no line is in it twice, but   *)
(* for lines of requests it has been excused from knowing again.            *)
EXTENDS Sequences, SequencesExt

CONSTANTS Keys, LinesOf(_)              \* the requests, and the lines of each

VARIABLES journal, acked, excused

InJournal(k, j) == LinesOf(k) \subseteq Range(j)

Once(j, e) ==
  \A m, n \in DOMAIN j : m # n /\ j[m] = j[n] => \E k \in e : j[m] \in LinesOf(k)

Init == journal = <<>> /\ acked = {} /\ excused = {}

Write ==
  /\ IsPrefix(journal, journal')
  /\ Once(journal', excused')
  /\ acked \subseteq acked' /\ excused \subseteq excused'
  /\ \A k \in acked' \ acked : k \in Keys /\ InJournal(k, journal')

Spec == Init /\ [][Write]_<<journal, acked, excused>>

=============================================================================
