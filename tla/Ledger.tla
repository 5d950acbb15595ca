------------------------------- MODULE Ledger --------------------------------
(* What create and destroy promise of one cluster to those who run them,     *)
(* with nothing of how: what the host holds for it grows only by a create of *)
(* it and shrinks only by a destroy, thing by thing; who is told "created"   *)
(* finds all that the record lists, who is told "destroyed" finds nothing.   *)
(* A create beside which something else ran promises nothing, nor does a     *)
(* destroy beside which a create ran.                                        *)
CONSTANT
  Callers     \* who runs the operations, one at a time each

VARIABLES
  status,     \* Callers -> how its operation on this cluster stands
  alone,      \* those whose running operation still promises something
  held,       \* the containers and volumes on the host for this cluster
  known,      \* "absent", "torn" or "saved": its record
  listed      \* the containers and volumes that the record names

ledgerVars == <<status, alone, held, known, listed>>

Creating == {p \in Callers : status[p] = "creating"}
(* Who erases was given no name, and so every cluster's record: destroy.go:69*)
Destroying == {p \in Callers : status[p] \in {"destroying", "erasing"}}

LedgerInit ==
  /\ status = [p \in Callers |-> "away"] /\ alone = {}
  /\ held = {} /\ known = "absent" /\ listed = {}

Same == UNCHANGED <<held, known, listed>>

Begin(p, operation) ==
  status[p] = "away" /\ status' = [status EXCEPT ![p] = operation] /\ Same

BeginCreate(p) ==
  /\ Begin(p, "creating")
  /\ alone' = IF Creating \cup Destroying = {} THEN {p} ELSE {}

BeginDestroy(p) ==
  /\ Begin(p, "destroying")
  /\ alone' = (alone \ Creating) \cup (IF Creating = {} THEN {p} ELSE {})

BeginEraseAll(p) == Begin(p, "erasing") /\ alone' = alone \ Creating

Acquire == \E x \in held' : held' = held \cup {x} /\ UNCHANGED <<known, listed>>

Release == \E x \in held : held' = held \ {x} /\ UNCHANGED <<known, listed>>

(* state.yaml is opened, which empties it, and then written.                 *)
Write ==
  /\ \/ known' = "torn" /\ listed' = {}
     \/ known # "absent" /\ known' = "saved"
  /\ UNCHANGED held

Erase == known' = "absent" /\ listed' = {} /\ UNCHANGED held

GoOn == UNCHANGED <<status, alone>>

Report(p, outcome) ==
  status' = [status EXCEPT ![p] = outcome] /\ alone' = alone \ {p}

Create(p) ==
  /\ status[p] = "creating"
  /\ Same \/ Acquire \/ Write
  /\ \/ GoOn
     \/ Report(p, "failed")
     \/ /\ Report(p, "created")
        /\ p \in alone => known' = "saved" /\ listed' # {} /\ listed' \subseteq held'

Destroy(p) ==
  /\ status[p] = "destroying"
  /\ Same \/ Release \/ Erase
  /\ \/ GoOn
     \/ Report(p, "failed")
     \/ /\ Report(p, "destroyed")
        /\ p \in alone => held' = {} /\ known' = "absent"

EraseAll(p) ==
  /\ status[p] = "erasing"
  /\ Same \/ Erase
  /\ GoOn \/ Report(p, "failed") \/ Report(p, "destroyed")

(* The caller has read its answer; or it is killed and gets none.            *)
Leave(p) == status[p] # "away" /\ Report(p, "away") /\ Same

LedgerNext ==
  \E p \in Callers :
    \/ BeginCreate(p) \/ BeginDestroy(p) \/ BeginEraseAll(p)
    \/ Create(p) \/ Destroy(p) \/ EraseAll(p) \/ Leave(p)

LedgerSpec == LedgerInit /\ [][LedgerNext]_ledgerVars
=============================================================================
