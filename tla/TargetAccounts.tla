---------------------------- MODULE TargetAccounts ----------------------------
(***************************************************************************)
(* The boundaries of a position claim: the wallet's token accounts of the  *)
(* target mint, enumerated before and after the transactions of the claim,  *)
(* and the authoritative evidence context that puts the two enumerations    *)
(* and the transactions together (wallet-acquisition/helius-target-account- *)
(* snapshot-adapter-v1, target-account-enumeration-port-v1, evidence-       *)
(* context-sidecar-v1 and authoritative-evidence-context).                  *)
(*                                                                         *)
(* An enumeration is one request for each token program, and every node of  *)
(* the provider answers from the slot it has reached.  The chain moves in   *)
(* between: the wallet transacts, and strangers touch its accounts.         *)
(***************************************************************************)
EXTENDS Integers, FiniteSets, SequencesExt

CONSTANTS
    Changes,            \* what one slot may do to one token account of the wallet
    MinimumContextSlot, \* minimum_context_slot of the request
    MaxSlots,           \* bound on the slots of the chain
    MaxLag,             \* bound on the slots a node is behind
    MaxPairAttempts     \* max_pair_attempts

Kinds == {"target", "wrapped", "foreign", "extended", "closed"}

ASSUME BoundaryBounds ==
    /\ Changes \subseteq [account : STRING, kind : Kinds, units : Nat, own : BOOLEAN]
    /\ {MinimumContextSlot, MaxSlots, MaxLag} \subseteq Nat /\ MaxPairAttempts \in Nat \ {0}

VARIABLES
    holdings,   \* the wallet's token accounts after each finalized slot
    own,        \* the slots with a transaction of the wallet
    program,    \* the token program of the target mint
    profile,    \* the enumeration profile the port is authorized for
    capture,    \* the boundary being enumerated, "CONTEXT" after both
    attempt,    \* accepted_attempt, 0 before the first request
    required,   \* mintRequired
    answers,    \* of the requests of this attempt
    snapshots,  \* the accepted enumerations
    acquired    \* the transactions the admitted context holds

chain == <<holdings, own, program>>
enumerating == <<capture, attempt, required, answers>>
boundaryVars == <<chain, profile, enumerating, snapshots, acquired>>

Profiles == {"attested", "watermark", "controlled"}
Boundaries == <<"OPENING", "ENDING_AS_OF">>
Programs == {"classic", "token_2022"}
Tip == Len(holdings)

-----------------------------------------------------------------------------
(* The chain.  A row is a token account: of the target mint, of wrapped SOL  *)
(* (a classic account), or of a foreign Token-2022 mint, with or without an   *)
(* extension the decoder does not support.                                   *)

ProgramOf(row) ==
    CASE row.kind = "target" -> program
      [] row.kind = "wrapped" -> "classic"
      [] row.kind \in {"foreign", "extended"} -> "token_2022"

Rows(slot, p) == {a \in DOMAIN holdings[slot] : ProgramOf(holdings[slot][a]) = p}
Targets(slot, p) == {a \in Rows(slot, p) : holdings[slot][a].kind = "target"}
Units(slot, accounts) == FoldSet(LAMBDA a, sum : holdings[slot][a].units + sum, 0, accounts)
Held(slot) == Units(slot, Targets(slot, program))

After(held, change) ==
    IF change.kind = "closed"
    THEN [a \in DOMAIN held \ {change.account} |-> held[a]]
    ELSE [a \in DOMAIN held \cup {change.account} |->
            IF a = change.account THEN [kind |-> change.kind, units |-> change.units] ELSE held[a]]

Produce(change) ==
    /\ Tip < MaxSlots /\ capture \in Range(Boundaries) \cup {"CONTEXT"}
    /\ holdings' = Append(holdings, After(holdings[Tip], change))
    /\ own' = own \cup IF change.own THEN {Tip + 1} ELSE {}
    /\ UNCHANGED <<program, profile, enumerating, snapshots, acquired>>

-----------------------------------------------------------------------------
(* One attempt: the whole pair at once, with the mint when rows of the       *)
(* target were seen under Token-2022 (captureFrozenHelius...Capability).  An *)
(* attested port is asked for one program after the other, and once.         *)

Lanes == IF required THEN Programs \cup {"mint"} ELSE Programs
Pending == 0
Transient == -1     \* a failure that may pass
Broken == -2        \* one that ends the capture
Settled == {l \in DOMAIN answers : answers[l] # Pending}

Dispatch ==
    /\ capture \in Range(Boundaries) /\ answers = <<>>
    /\ attempt' = attempt + 1
    /\ answers' = [l \in Lanes |-> Pending]
    /\ UNCHANGED <<chain, profile, capture, required, snapshots, acquired>>

\* A settled request: the node's slot and the population it has there, or a
\* failure that may pass, or one that ends the capture (a time-out included).
Settle(lane, answer) ==
    /\ lane \in DOMAIN answers /\ answers[lane] = Pending
    /\ answer \in ((Tip - MaxLag)..Tip \cap 1..Tip) \cup {Transient, Broken}
    /\ profile = "attested" => answer # Transient /\ (lane = "classic" \/ "classic" \in Settled)
    /\ answers' = [answers EXCEPT ![lane] = answer]
    /\ UNCHANGED <<chain, profile, capture, attempt, required, snapshots, acquired>>

Succeeded == \A l \in DOMAIN answers : answers[l] > 0

\* decodeSolanaTokenAccountDataV1: native accounts and unknown extensions are
\* not decoded, whatever their mint.
Decodable(row) == row.kind \notin {"wrapped", "extended"}

\* parseOwnerRpc: a population below the floor, one with a row that cannot be
\* decoded, and an account enumerated under both programs are refused.
Population(p) == Rows(answers[p], p)
WellFormedPair ==
    /\ \A p \in Programs : /\ answers[p] >= MinimumContextSlot
                           /\ \A a \in Population(p) : Decodable(holdings[answers[p]][a])
    /\ Population("classic") \cap Population("token_2022") = {}

\* Mutant: the pair takes the slot of the later answer.
NewerSlot == IF answers["classic"] > answers["token_2022"] THEN answers["classic"] ELSE answers["token_2022"]

\* The slot both populations were told at, or none.
PairSlot == IF answers["classic"] = answers["token_2022"] THEN answers["classic"] ELSE 0

\* A local decoding knows no Token-2022 target: its rows ask for the mint, and
\* the mint, confirmed at the same slot, still admits nothing.
Confirmed == required /\ PairSlot # 0 /\ answers["mint"] = PairSlot
Token2022Targets == Targets(answers["token_2022"], "token_2022")

Terminal ==
    \/ \E l \in DOMAIN answers : answers[l] = Broken
    \/ Succeeded /\ (~WellFormedPair \/ Confirmed)
    \/ profile = "attested" /\ PairSlot = 0

\* The port admits no row of Token-2022 under a production profile.
Authorized == profile # "attested" => Token2022Targets = {}

Accepted == /\ Succeeded /\ WellFormedPair /\ PairSlot # 0
            /\ profile # "attested" => ~Confirmed
            /\ Authorized

\* captureTargetAccountEnumerationV1: what the frozen port replays of the pair.
Enumeration ==
    [slot |-> PairSlot,
     units |-> Units(answers["classic"], Targets(answers["classic"], "classic"))
                 + Units(answers["token_2022"], Token2022Targets)]

Idle == attempt' = 0 /\ required' = FALSE /\ answers' = <<>>
Refused == capture' = "REFUSED" /\ Idle /\ UNCHANGED snapshots

Accept ==
    /\ snapshots' = [b \in DOMAIN snapshots \cup {capture} |->
                      IF b = capture THEN Enumeration ELSE snapshots[b]]
    /\ capture' = IF capture = "OPENING" THEN "ENDING_AS_OF" ELSE "CONTEXT"
    /\ Idle

\* Every request of the attempt has settled.
Join ==
    /\ answers # <<>> /\ Settled = DOMAIN answers
    /\ IF Accepted THEN Accept
       ELSE IF Terminal \/ attempt = MaxPairAttempts THEN Refused
       ELSE /\ required' = (required \/ (Succeeded /\ PairSlot # 0 /\ Token2022Targets # {}))
            /\ answers' = <<>> /\ UNCHANGED <<capture, attempt, snapshots>>
    /\ UNCHANGED <<chain, profile, acquired>>

\* The 30 s of the capture pass before an attempt, during it or during the
\* delay that follows it.
CaptureDeadline ==
    /\ attempt > 0 /\ (answers = <<>> \/ Settled = DOMAIN answers) /\ profile # "attested"
    /\ Refused /\ UNCHANGED <<chain, profile, acquired>>

-----------------------------------------------------------------------------
(* The context (buildSourceBoundAuthoritativeEvidenceContextV13).            *)

Opening == snapshots["OPENING"]
Ending == snapshots["ENDING_AS_OF"]

\* Mutant: a boundary may be at the slot of a transaction.
BracketsLoosely(population) ==
    /\ Opening.slot <= Ending.slot
    /\ \A s \in population : Opening.slot <= s /\ s <= Ending.slot

\* The response contexts must strictly bracket the transactions.
Brackets(population) ==
    /\ Opening.slot <= Ending.slot
    /\ \A s \in population : Opening.slot < s /\ s < Ending.slot

\* An acquisition from one slot to its anchor, and the transcript of its full
\* transactions, which must tell the same population.
Window(from, anchor) == {s \in own : from <= s /\ s <= anchor}

Sidecar(population, transcript) == transcript = population

\* Equal watermarks alone are no combined authority; a positive opening, and
\* only that, comes with a reference to its basis.
Admits(population, transcript, basis) ==
    /\ Sidecar(population, transcript)
    /\ profile # "watermark"
    /\ Brackets(population)
    /\ basis <=> Opening.units # 0

Context(from, anchor, transcript, basis) ==
    /\ capture = "CONTEXT"
    /\ IF Admits(Window(from, anchor), transcript, basis)
       THEN capture' = "ADMITTED" /\ acquired' = Window(from, anchor)
       ELSE capture' = "REFUSED" /\ UNCHANGED acquired
    /\ UNCHANGED <<chain, profile, attempt, required, answers, snapshots>>

-----------------------------------------------------------------------------
InitBoundaries ==
    /\ holdings = <<<<>>>> /\ own = {} /\ acquired = {}
    /\ program \in Programs /\ profile \in Profiles
    /\ capture = "OPENING" /\ attempt = 0 /\ required = FALSE /\ answers = <<>>
    /\ snapshots = <<>>

NextBoundaries ==
    \/ \E change \in Changes : Produce(change)
    \/ Dispatch \/ Join \/ CaptureDeadline
    \/ \E lane \in Programs \cup {"mint"}, answer \in Broken..MaxSlots :
         Settle(lane, answer)
    \/ \E from, anchor \in 1..Tip, transcript \in {own} \cup {own \ {s} : s \in own}, basis \in BOOLEAN :
         Context(from, anchor, transcript \cap from..anchor, basis)

\* What the slots between the boundaries did to the target inventory.
Moved(slot) == Held(slot) - Held(slot - 1)
Sum(slots) == FoldSet(LAMBDA s, sum : Moved(s) + sum, 0, slots)
Between == {s \in 2..Tip : Opening.slot < s /\ s <= Ending.slot}

(* The boundaries and the transactions tell one history: when the wallet's   *)
(* inventory moved, between the two boundaries, in the context's             *)
(* transactions only, the opening quantity and what each of them did make     *)
(* the ending quantity: nothing is counted on both sides of a boundary, and a *)
(* quantity is the one its slot had, however the nodes answered               *)
(* (authoritative-evidence-context.mjs 201-211, snapshot adapter 333-360).    *)
BoundariesAccountForTheHistory ==
    (capture = "ADMITTED" /\ \A s \in Between : Moved(s) # 0 => s \in acquired)
        => Opening.units + Sum(acquired) = Ending.units
=============================================================================
