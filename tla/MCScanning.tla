------------------------------ MODULE MCScanning ------------------------------
(* Instances of ScanRuns and Findings in three scenes: "runs" is three runs of one *)
(* scanner on one file; "cascade" is two calls, and people, at work on an issue    *)
(* that two findings were promoted and linked to; "promote" is promotions, one at  *)
(* a time, that die and are repeated while issues come and go.                     *)
EXTENDS ScanRuns, Findings, TLC

CONSTANTS r1, r2, r3, f1, f2, i1, i2, c1, c2
TwoRuns == {r1, r2}
ThreeRuns == {r1, r2, r3}
Findings2 == {f1, f2}
Issues2 == {i1, i2}
Calls2 == {c1, c2}

(* The elements of a set are told apart only by name.                             *)
Interchangeable ==
    Permutations(Run) \cup Permutations(Finding) \cup Permutations(Call)

VARIABLE scene
mcVars == <<scanVars, findingVars, scene>>

PromotedAndLinked ==
    /\ finding = [f \in Finding |-> [status |-> "open", issue |-> i1]]
    /\ \E f \in Finding :
          issue = (i1 :> [done |-> FALSE, closer |-> "nobody", held |-> FALSE,
                          origin |-> f, debts |-> {}])
    /\ deleted = {} /\ call = [c \in Call |-> Idle]
    /\ regressed = {} /\ forgotten = {}

MCInit ==
    /\ ScanInit
    /\ \/ scene \in {"runs", "promote"} /\ FindingInit
       \/ scene = "cascade" /\ PromotedAndLinked

NobodyPromotes == \A c \in Call : call[c].does # "promote"

CascadeScene ==
    /\ scene = "cascade"
    /\ (\E c \in Call : Starts(c) \/ CascadeStep(c) \/ Dies(c)) \/ PersonStep

PromoteScene ==
    /\ scene = "promote"
    /\ \/ \E c \in Call, f \in Finding : PromoteLook(c, f) /\ NobodyPromotes
       \/ \E c \in Call : PromoteStep(c) \/ Dies(c)
       \/ \E c \in Call, f \in Finding : Ingest(c, {f}, FALSE)
       \/ \E f \in Finding, i \in Issue : Link(f, i)
       \/ \E i \in Live : Delete(i)

MCNext ==
    \/ scene = "runs" /\ ScanNext /\ UNCHANGED <<findingVars, scene>>
    \/ CascadeScene /\ UNCHANGED <<scanVars, scene>>
    \/ PromoteScene /\ UNCHANGED <<scanVars, scene>>
MCSpec == MCInit /\ [][MCNext]_mcVars

(* Promotions of one finding that overlap.                                        *)
OverlapNext ==
    /\ \/ \E c \in Call, f \in Finding : PromoteLook(c, f) \/ Ingest(c, {f}, FALSE)
       \/ \E c \in Call : PromoteStep(c)
    /\ UNCHANGED <<scanVars, scene>>
OverlapSpec == ScanInit /\ FindingInit /\ scene = "promote" /\ [][OverlapNext]_mcVars
=============================================================================
