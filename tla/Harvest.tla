------------------------------ MODULE Harvest ------------------------------
(***************************************************************************)
(* What the scrape stage promises the rest of the pipeline, whatever the   *)
(* browser and the sites do: a run is opened and ended once, posts are     *)
(* stored for the run that is open, and a stored row is neither changed    *)
(* nor doubled.                                                            *)
(***************************************************************************)
CONSTANTS Runs

VARIABLES
  status,   \* status[r]: "none", or the status of run r's scrape_runs row
  rows      \* the raw_posts rows: records with a key, a post and a run

Init ==
  /\ status = [r \in Runs |-> "none"]
  /\ rows = {}

Open(r) ==
  /\ status[r] = "none"
  /\ status' = [status EXCEPT ![r] = "running"]
  /\ UNCHANGED rows

Store(r) ==
  /\ status[r] = "running"
  /\ rows \subseteq rows'
  /\ \A a \in rows' \ rows :
       /\ a.run = r
       /\ \A b \in rows' : b.key = a.key => b = a
  /\ UNCHANGED status

End(r) ==
  /\ status[r] = "running"
  /\ \E s \in {"success", "failed"} : status' = [status EXCEPT ![r] = s]
  /\ UNCHANGED rows

Next == \E r \in Runs : Open(r) \/ Store(r) \/ End(r)

vars == <<status, rows>>

Spec == Init /\ [][Next]_vars
=============================================================================
