---- MODULE LocalServer ----
(***************************************************************************)
(* The local API server and the tools that stand beside it, over one       *)
(* wallet that trades on: the transaction cache in memory and on disk, the *)
(* pipeline cache with the positions of each window, the requests that     *)
(* interleave at every await, and mint-one and rebuild-position, which     *)
(* fetch for themselves.                                                   *)
(***************************************************************************)
EXTENDS SinglePositions, ReceiptPackages

CONSTANTS
    ServedLives,    \* the histories of the wallet that are served
    Requests,       \* requests the server may handle at once
    SingleTools,    \* mint-one or rebuild-position beside it
    Windows,        \* the from and to filters asked for
    Depths,         \* maxTxns
    Edits,          \* the legs a custom receipt may be asked to leave out
    Rates,          \* what the price services may answer
    ServerPage,     \* PAGE_SIZE
    MaxAsked,       \* bound on requests and invocations of tools
    MaxMishaps      \* bound on failed pages, failed writes and restarts

ASSUME ServerBounds ==
    /\ ServerPage \in Nat \ {0} /\ Depths \subseteq Nat \ {0} /\ {MaxAsked, MaxMishaps} \subseteq Nat
    /\ Requests \cap SingleTools = {}
    /\ Raw \notin Rates /\ \A r \in Rates : r["SOL"] = {1}

VARIABLES
    cache,          \* the transaction cache: [memory, disk], sets of at most one set
    pipeline,       \* the object of pipelineCache: at most one [txs, positions]
    worker,         \* requests and tools
    minted,         \* anchors mint-one made: [receipt, byte, closed]
    issued,         \* ghost: every verified receipt given out: [receipt, closed, fresh, rates, due]
    overlapped,     \* ghost: two requests have run at once since the server started
    cut,            \* ghost: a fetch of the server ended before the end of the pages
    spent           \* [asked, mishaps]

ghosts == <<issued, overlapped, cut>>
serverVars == <<history, cache, pipeline, worker, minted, ghosts, spent>>

Quiet == [pc |-> "idle"]
Workers == Requests \cup SingleTools

ServerInit ==
    /\ LedgerInit
    /\ cache = [memory |-> {}, disk |-> {}] /\ pipeline = {}
    /\ worker = [w \in Workers |-> Quiet]
    /\ minted = {} /\ issued = {} /\ overlapped = FALSE /\ cut = FALSE
    /\ spent = [asked |-> 0, mishaps |-> 0]

Mishaps(n) == spent.mishaps + n <= MaxMishaps /\ spent' = [spent EXCEPT !.mishaps = @ + n]

Served(trades) == \E life \in ServedLives : IsPrefix(trades, life)

\* The wallet trades on; only the lives given are served.
WalletTrades ==
    /\ LedgerNext
    /\ spent.asked > 0 => Served(history')
    /\ UNCHANGED <<cache, pipeline, worker, minted, ghosts, spent>>

-----------------------------------------------------------------------------
(* Fetching: fetchIncremental of the server, fetchTransactions of a tool.   *)

\* get: the memory, else the file.
Known == IF cache.memory # {} THEN cache.memory ELSE cache.disk

Begin(w, known) ==
    /\ worker[w].pc = "idle" /\ spent.asked < MaxAsked /\ Served(history)
    /\ \E depth \in Depths, window \in Windows :
          worker' = [worker EXCEPT ![w] =
              [pc |-> "page", window |-> window, depth |-> depth, known |-> known, page |-> {}, got |-> {},
               before |-> MaxSwaps + 1, due |-> Len(history)]]
    /\ spent' = [spent EXCEPT !.asked = @ + 1]
    /\ UNCHANGED <<history, pipeline, minted, issued, cut>>

Ask(r) ==
    /\ Begin(r, Known)
    /\ cache' = [cache EXCEPT !.memory = Known]
    /\ overlapped' = (overlapped \/ \E q \in Requests : worker[q].pc # "idle")

StartTool(t) == Begin(t, {}) /\ UNCHANGED <<cache, overlapped>>

Limit(p) == Min({ServerPage, p.depth - Cardinality(p.got)})

NewestPage(p) ==
    {i \in DOMAIN history : i < p.before /\ Cardinality({j \in DOMAIN history : i < j /\ j < p.before}) < Limit(p)}

\* The provider reads its index; the answer arrives later.
Respond(w) ==
    /\ worker[w].pc = "page"
    /\ worker' = [worker EXCEPT ![w] = [@ EXCEPT !.pc = "sent", !.page = NewestPage(worker[w])]]
    /\ UNCHANGED <<history, cache, pipeline, minted, ghosts, spent>>

OldSignatures(p) == UNION p.known

\* What precedes the first known signature of a page is new.
NewOf(p) == {i \in p.page : \A k \in p.page \cap OldSignatures(p) : i > k}

Met(p) == p.page \cap OldSignatures(p) # {}
LastPage(p) == p.page = {} \/ Met(p) \/ Cardinality(p.page) < Limit(p)
Capped(p) == Cardinality(p.got \cup NewOf(p)) >= p.depth

NextPage(w) ==
    LET p == worker[w]
    IN  /\ p.pc = "sent" /\ ~LastPage(p) /\ ~Capped(p)
        /\ worker' = [worker EXCEPT ![w] =
              [p EXCEPT !.pc = "page", !.page = {}, !.got = @ \cup p.page, !.before = Min(p.page)]]
        /\ UNCHANGED <<history, cache, pipeline, minted, ghosts, spent>>

\* How a fetch may end: [got, whole, failed].  It is whole at the end of the
\* pages, and not when its depth or a failed page cut it off.
Ends(p) ==
    CASE p.pc = "sent" /\ LastPage(p)              -> {[got |-> p.got \cup NewOf(p), whole |-> TRUE, failed |-> 0]}
      [] p.pc = "sent" /\ ~LastPage(p) /\ Capped(p) -> {[got |-> p.got \cup p.page, whole |-> FALSE, failed |-> 0]}
      [] p.pc = "page"                             -> {[got |-> p.got, whole |-> FALSE, failed |-> 1]}
      [] OTHER                                     -> {}

-----------------------------------------------------------------------------
(* The routes: list or detail, rebuild, and the two kinds of receipt.       *)

Issued(p, receipts, txs, rates, due) ==
    {[receipt |-> r, closed |-> p.status = "closed", fresh |-> 1..due \subseteq txs, rates |-> rates, due |-> due] : r \in receipts}

\* The routes check that what is removed are legs, and that some are left.
Removals(p) == {removed \in Edits \ {{}, p.entries \cup p.exits} : removed \subseteq p.entries \cup p.exits}

\* A receipt may be asked for; rebuild gives one of a position without a sale
\* too.  A custom receipt is made of the same position and is not kept.
Answer(positions, txs, rates, due) ==
    \/ UNCHANGED issued
    \/ \E p \in positions : issued' = issued \cup Issued(p, PositionReceipt(p, rates), txs, rates, due)

-----------------------------------------------------------------------------
(* runPipeline, from the end of its fetch to its next await.                *)

\* Mutant: new transactions do not invalidate the pipeline cache.
KeptAnyway(got) == pipeline

\* New transactions invalidate the pipeline cache.
Kept(got) == IF got = {} THEN pipeline ELSE {}

Reprocessed(got, all) ==
    IF Kept(got) # {} THEN Kept(got)
    ELSE {[txs |-> x, positions |-> <<>>] : x \in {y \in {all} : SingleCycles(y) # {}}}

\* Requests still at work on an object that was replaced do not write to the new one.
Superseded(got) ==
    [w \in Workers |-> IF worker[w].pc = "rates" /\ Kept(got) = {} THEN [worker[w] EXCEPT !.held = FALSE] ELSE worker[w]]

RunPipeline(r) ==
    \E end \in Ends(worker[r]), saved \in BOOLEAN :
        LET all == OldSignatures(worker[r]) \cup end.got
            object == Reprocessed(end.got, all)
            window == worker[r].window
            due == IF overlapped \/ cut \/ ~end.whole THEN 0 ELSE worker[r].due
        IN  /\ Mishaps(end.failed + IF saved THEN 0 ELSE 1)
            /\ cache' = [memory |-> {all}, disk |-> IF saved THEN {all} ELSE cache.disk]
            /\ cut' = (cut \/ ~end.whole)
            /\ pipeline' = IF all = {} THEN pipeline ELSE object
            /\ \/ /\ all = {} \/ object = {}
                  /\ worker' = [(IF all = {} THEN worker ELSE Superseded(end.got)) EXCEPT ![r] = Quiet]
                  /\ UNCHANGED issued
               \/ \E o \in object :
                  /\ all # {}
                  /\ IF window \in DOMAIN o.positions
                     THEN /\ worker' = [Superseded(end.got) EXCEPT ![r] = Quiet]
                          /\ Answer(o.positions[window][1], o.txs, o.positions[window][2], due)
                     ELSE /\ worker' = [Superseded(end.got) EXCEPT ![r] =
                                 [pc |-> "rates", window |-> window, txs |-> o.txs, held |-> TRUE, due |-> due]]
                          /\ UNCHANGED issued
            /\ UNCHANGED <<history, minted, overlapped>>

\* The rates a set of positions is normalized with.
RatesFor(positions) == IF \E p \in positions : Mixed(p) THEN Rates ELSE {Raw}

\* normalizePositions and the token metadata: the awaits end, the positions
\* are kept for the window and answered.
Normalize(r) ==
    /\ worker[r].pc = "rates"
    /\ LET positions == PositionsOf(worker[r].txs, worker[r].window)
       IN  \E rates \in RatesFor(positions) :
              /\ pipeline' = IF ~worker[r].held THEN pipeline
                             ELSE {[o EXCEPT !.positions = (worker[r].window :> <<positions, rates>>) @@ @] : o \in pipeline}
              /\ Answer(positions, worker[r].txs, rates, worker[r].due)
    /\ worker' = [worker EXCEPT ![r] = Quiet]
    /\ UNCHANGED <<history, cache, minted, overlapped, cut, spent>>

\* The server stops and is started again: the file is what is left.
Restart ==
    /\ \E r \in Requests : worker[r].pc # "idle" \/ pipeline # {}
    /\ Mishaps(1)
    /\ worker' = [w \in Workers |-> IF w \in Requests THEN Quiet ELSE worker[w]]
    /\ cache' = [cache EXCEPT !.memory = {}] /\ pipeline' = {} /\ overlapped' = FALSE
    /\ UNCHANGED <<history, minted, issued, cut>>

-----------------------------------------------------------------------------
(* The tools, from the end of their fetch.                                  *)

\* rebuild-position normalizes nothing, and asks for some closed cycle.
RebuildPosition(t) ==
    \E end \in Ends(worker[t]) :
        LET due == IF end.whole THEN worker[t].due ELSE 0
        IN  /\ Mishaps(end.failed)
            /\ IF \A c \in SingleCycles(end.got) : c.status # "closed" THEN UNCHANGED issued
               ELSE issued' = issued \cup UNION {Issued(p, PositionReceipt(p, Raw), end.got, Raw, due) :
                                                    p \in PositionsOf(end.got, worker[t].window)}
            /\ worker' = [worker EXCEPT ![t] = Quiet]
            /\ UNCHANGED <<history, cache, pipeline, minted, overlapped, cut>>

\* mint-one refuses a position that is not closed.
MintOneAccepts(p) == p.exits # {} /\ p.status = "closed"

MintOne(t) ==
    \E end \in Ends(worker[t]) :
        LET positions == PositionsOf(end.got, worker[t].window)
            due == IF end.whole THEN worker[t].due ELSE 0
        IN  /\ Mishaps(end.failed)
            /\ \/ /\ worker' = [worker EXCEPT ![t] = Quiet]
                  /\ UNCHANGED issued
               \/ \E p \in positions, rates \in RatesFor(positions) :
                  \E receipts \in {PositionReceipt(p, rates)} \cup {CustomReceipt(p, removed, rates) : removed \in Removals(p)} :
                  \E one \in Issued(p, receipts, end.got, rates, due) :
                     /\ MintOneAccepts(p)
                     /\ issued' = issued \cup {x \in {one} : receipts = PositionReceipt(p, rates)}
                     /\ worker' = [worker EXCEPT ![t] = [pc |-> "selected", one |-> one]]
            /\ UNCHANGED <<history, cache, pipeline, minted, overlapped, cut>>

\* mintOnChain: what the anchor of a receipt says of it.
SingleStatusByte(r) == IF r.status = "verified" THEN 0 ELSE 1

\* The claim is signed and the assets uploaded, or a placeholder stands for
\* them; a hash that has its anchor is left alone.
MintSelected(t) ==
    /\ worker[t].pc = "selected"
    /\ LET one == worker[t].one
       IN  \/ UNCHANGED minted
           \/ /\ \A a \in minted : a.receipt.hash # one.receipt.hash
              /\ minted' = minted \cup {[receipt |-> one.receipt, byte |-> SingleStatusByte(one.receipt), closed |-> one.closed]}
    /\ worker' = [worker EXCEPT ![t] = Quiet]
    /\ UNCHANGED <<history, cache, pipeline, ghosts, spent>>

-----------------------------------------------------------------------------

ServerNext ==
    \/ WalletTrades
    \/ \E r \in Requests : Ask(r) \/ RunPipeline(r) \/ Normalize(r)
    \/ \E t \in SingleTools : StartTool(t) \/ RebuildPosition(t) \/ MintOne(t) \/ MintSelected(t)
    \/ \E w \in Workers : Respond(w) \/ NextPage(w)
    \/ Restart

ServerSpec == ServerInit /\ [][ServerNext]_serverVars

-----------------------------------------------------------------------------

\* Unless a fetch was cut off, what is cached is the history up to some trade:
\* no gap, however requests interleave with trades, restarts and failed writes.
CachesHaveNoGap == ~cut => \A known \in cache.memory \cup cache.disk : known = 1..Cardinality(known)

\* Unless requests overlapped or a fetch was cut off, a receipt takes in
\* every trade made before it was asked for.
AnswersAreFresh == \A x \in issued : x.fresh

\* An anchor is of a closed position, and the byte of a verified one is only
\* on the receipt of all its trades; each hash has one anchor.
AnchorsAreClosed ==
    /\ \A a \in minted : a.closed /\ (a.byte = 0 => a.receipt.type = "verified" /\ a.receipt.exits # {})
    /\ \A a, b \in minted : a.receipt.hash = b.receipt.hash => a = b

\* What the server and the tools answer rests on a history without a gap, takes
\* in every trade made before it was asked for, and is anchored only when closed.
ServerAnswersHold == CachesHaveNoGap /\ AnswersAreFresh /\ AnchorsAreClosed

\* No trade after the fetch falls into the seconds of the position's name, or
\* of its legs: a window may end before the cycle it names does.
SettledBy(x) ==
    /\ x.closed /\ x.due > 0
    /\ \A i \in DOMAIN history : i > x.due =>
          Seconds[i] > Max({x.receipt.position[2]} \cup Times(x.receipt.entries \cup x.receipt.exits))

\* Once a position has settled, whoever issues its receipt issues the same one,
\* the rates being the same.
SettledReceiptsAgree ==
    \A x, y \in issued :
        SettledBy(x) /\ y.due >= x.due /\ x.receipt.position = y.receipt.position /\ x.rates = y.rates =>
            x.receipt.hash = y.receipt.hash

\* Of every history, before anything is asked of the server: what is published
\* can be relied on, the reconstructions agree, a settled position stays and
\* the two flows of mint-one agree.
HistoriesHold ==
    spent.asked = 0 => PublishedReceiptsHold /\ ReconstructionsAgree /\ SettledPositionsStay /\ FlowsAgree
====
