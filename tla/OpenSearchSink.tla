--------------------------- MODULE OpenSearchSink ---------------------------
(***************************************************************************)
(* The warm sink (sinks/opensearch_sink.py): every micro-batch is one bulk *)
(* request that indexes each record under its idempotency token. The       *)
(* cluster may accept some of the items only, the client retries a request *)
(* that timed out, and a request the client gave up on may still be        *)
(* carried out later.                                                      *)
(***************************************************************************)
EXTENDS OrdersStream, FiniteSetsExt

CONSTANT OrderDay \* the day of every event's order_ts, NoDay when it is null,
                  \* BadDay when its text has no year, month and day

NoDay == 0
BadDay == -1
EpochDay == 19700101

ASSUME OrderDayAssumption == OrderDay \in [1..MaxEvents -> Nat \union {BadDay}]

VARIABLES
    docs,     \* the position of the event every document holds, 0 for none
    abandoned \* events of requests given up on that may still be carried out

openSearchVars == <<vars, docs, abandoned>>

-----------------------------------------------------------------------------
(* What a document is. *)

(* _resolve_index: the day of the order names the index. *)
ResolveIndex(p) == IF OrderDay[p] = NoDay THEN EpochDay ELSE OrderDay[p]

DocId(p) == <<ResolveIndex(p), IdempotencyToken(p)>>

(* A record whose index cannot be resolved is logged and left out. *)
Indexable == {p \in KeptEvents : OrderDay[p] # BadDay}

DocIds == {DocId(p) : p \in Indexable}

(* The items of the bulk request, in the order of the batch. *)
BulkItems == BatchRows \intersect Indexable

ItemsOf(S, d) == {p \in S : DocId(p) = d}

(* The documents after a bulk request whose last attempt was answered with the
   items of accepted indexed; attempts before it may have indexed any item. *)
DocsAfter(accepted) ==
    {f \in [DocIds -> 0..MaxEvents] :
        \A d \in DocIds :
            IF ItemsOf(accepted, d) # {}
            THEN f[d] = Max(ItemsOf(accepted, d))
            ELSE f[d] \in {docs[d]} \union ItemsOf(BulkItems, d)}

-----------------------------------------------------------------------------
(* write_batch. *)

(* Nothing to index: no request is sent. *)
WriteNothing ==
    /\ BulkItems = {}
    /\ RunBatch(0, 0)
    /\ UNCHANGED <<docs, abandoned>>

(* Mutation: items are counted as written whatever their status is. *)
BulkAnsweredUnchecked ==
    /\ BulkItems # {}
    /\ \E accepted \in SUBSET BulkItems :
          /\ RunBatch(Cardinality(BulkItems), 0)
          /\ docs' \in DocsAfter(accepted)
    /\ abandoned' \in {abandoned, abandoned \union BulkItems}

(* client.bulk answers; the status of every item is counted. *)
BulkAnswered ==
    /\ BulkItems # {}
    /\ \E accepted \in SUBSET BulkItems :
          /\ RunBatch(Cardinality(accepted), Cardinality(BulkItems \ accepted))
          /\ docs' \in DocsAfter(accepted)
    /\ abandoned' \in {abandoned, abandoned \union BulkItems}

(* client.bulk raises after its retries: all items count as failed. *)
BulkRaised ==
    /\ BulkItems # {}
    /\ RunBatch(0, Cardinality(BulkItems))
    /\ docs' \in DocsAfter({})
    /\ abandoned' \in {abandoned, abandoned \union BulkItems}

(* The driver dies, perhaps while a request is under way. *)
OpenSearchCrash ==
    /\ Crash
    /\ IF phase = "writing"
          THEN /\ docs' \in DocsAfter({})
               /\ abandoned' = abandoned \union BulkItems
          ELSE UNCHANGED <<docs, abandoned>>

(* The cluster carries out an item of a request nobody waits for. *)
IndexLate ==
    \E p \in abandoned :
        /\ docs' = [docs EXCEPT ![DocId(p)] = p]
        /\ abandoned' = abandoned \ {p}
        /\ UNCHANGED vars

-----------------------------------------------------------------------------
(* The specification. *)

OpenSearchInit ==
    /\ Init
    /\ docs = [d \in DocIds |-> 0]
    /\ abandoned = {}

OpenSearchWrite == WriteNothing \/ BulkAnswered \/ BulkRaised

OpenSearchNext ==
    \/ QueryStep /\ UNCHANGED <<docs, abandoned>>
    \/ OpenSearchWrite
    \/ OpenSearchCrash
    \/ IndexLate

OpenSearchSpec == OpenSearchInit /\ [][OpenSearchNext]_openSearchVars

-----------------------------------------------------------------------------
(* Properties. *)

(* README.md:29, "At-least-once guarantees": every indexable event behind the
   committed offsets is found in the document of its own id, through item
   failures, retries, crashes and requests that arrive late. *)
SearchableAtLeastOnce ==
    \A p \in Indexable :
        startPos < p /\ p <= CommittedEnd => docs[DocId(p)] = p

(* docs/EXACTLY_ONCE.md:48, "Replay writes the same data under the same key,
   producing no observable change": a document, once there, never changes,
   whichever attempts are repeated or arrive late. *)
ReplayInvisible ==
    [][\A d \in DocIds : docs[d] # 0 => docs'[d] = docs[d]]_openSearchVars

(* Only events some batch has planned can be found. *)
DocsArePlanned ==
    \A d \in DocIds :
        docs[d] # 0 => /\ offsetLog # <<>>
                       /\ startPos < docs[d]
                       /\ docs[d] <= offsetLog[Len(offsetLog)]

(* The readers of the index see the promise of AtLeastOnceDelivery. *)
Delivery == INSTANCE AtLeastOnceDelivery WITH
    Positions <- 1..MaxEvents,
    Owed <- Indexable,
    opened <- startPos,
    acked <- CommittedEnd,
    stored <- {p \in Indexable : docs[DocId(p)] = p}

ImplementsDelivery == Delivery!Spec

=============================================================================
