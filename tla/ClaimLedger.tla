---------------------------- MODULE ClaimLedger ----------------------------
(***************************************************************************)
(* What the LKE provider promises Karpenter, without pools, locks, retries *)
(* or requests: a ledger of which live instance is held by which NodeClaim.*)
(* An instance is assigned once, to a claim that holds nothing, and Create *)
(* only ever answers with the instance the claim holds.                    *)
(***************************************************************************)
CONSTANTS Claims, Instances, None

VARIABLES
    live,    \* instances that exist
    dead,    \* instances that have been removed; they never come back
    holder,  \* the claim that holds an instance
    answer   \* the instance the last successful Create of a claim returned

ledgerVars == <<live, dead, holder, answer>>

LedgerInit ==
    /\ live = {}
    /\ dead = {}
    /\ holder = [i \in Instances |-> None]
    /\ answer = [c \in Claims |-> None]

Appear(i) ==
    /\ i \notin live \cup dead
    /\ live' = live \cup {i}
    /\ UNCHANGED <<dead, holder, answer>>

Assign(c, i) ==
    /\ i \in live
    /\ holder[i] = None
    /\ \A j \in Instances : holder[j] # c
    /\ holder' = [holder EXCEPT ![i] = c]
    /\ UNCHANGED <<live, dead, answer>>

Answer(c, i) ==
    /\ i \in live
    /\ holder[i] = c
    /\ answer' = [answer EXCEPT ![c] = i]
    /\ UNCHANGED <<live, dead, holder>>

(* A node that never came up is removed without having lived. *)
Remove(gone) ==
    /\ live' = live \ gone
    /\ dead' = dead \cup gone
    /\ holder' = [i \in Instances |-> IF i \in gone THEN None ELSE holder[i]]
    /\ UNCHANGED answer

LedgerNext ==
    \/ \E i \in Instances : Appear(i)
    \/ \E c \in Claims, i \in Instances : Assign(c, i) \/ Answer(c, i)
    \/ \E gone \in SUBSET Instances : Remove(gone)

LedgerSpec == LedgerInit /\ [][LedgerNext]_ledgerVars

=============================================================================
