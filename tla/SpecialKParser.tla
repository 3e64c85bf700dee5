--------------------------- MODULE SpecialKParser ---------------------------
(***************************************************************************)
(* NewSpecialKEnvelopeFromBytes: one goroutine per flake parses it and     *)
(* sends the result over an unbuffered channel, a collector goroutine      *)
(* stores what it receives, and the calling goroutine, once all of them    *)
(* are done, puts the transactions together into an envelope.              *)
(*                                                                         *)
(* A flake is the transaction it is about (the transaction itself, the one *)
(* a proof proves, the one a mAPI callback reports on), Null when it has   *)
(* fewer than two bytes, or Bad when it does not parse; its position       *)
(* modulo 3 says which of the three it holds.                              *)
(***************************************************************************)
EXTENDS Integers, Sequences, FiniteSets

CONSTANTS Txs,      \* transactions
          Inputs,   \* the transactions each of them spends from
          Null,     \* a flake shorter than two bytes
          Bad,      \* a flake that does not parse
          None,     \* the empty transaction id
          Streams   \* the flake lists the parser is given

ASSUME ParserAssumption ==
    /\ Inputs \in [Txs -> SUBSET Txs]
    /\ {Null, Bad, None} \cap Txs = {} /\ Null # Bad
    /\ \A f \in Streams : f \in Seq(Txs \cup {Null, Bad}) /\ Len(f) > 0

VARIABLES
    version,    \* the first byte
    flakes,     \* the rest, cut into flakes
    main,       \* what the calling goroutine is doing
    idx,        \* the flake it spawns a goroutine for next
    wg,         \* counter of the wait group
    routine,    \* what the goroutine of each flake is doing
    collector,  \* what the collector is doing
    held,       \* the flake the collector has received and not yet stored
    txs, proofs, mapiCallbacks,   \* the keys of the three maps
    envelope,   \* the envelope: its placed nodes, by path from the root
    pass,       \* transactions the current pass has still to try
    search      \* transaction and node of the current call of searchParents

vars == <<version, flakes, main, idx, wg, routine, collector, held,
          txs, proofs, mapiCallbacks, envelope, pass, search>>

fetching  == <<version, flakes, idx, wg, routine, collector, held>>
maps      == <<txs, proofs, mapiCallbacks>>
assembly  == <<envelope, pass, search>>

\* What the flake at a position holds (positions count from 0 in the code).
Kind(n) == CASE n % 3 = 0 -> "tx" [] n % 3 = 1 -> "proof" [] OTHER -> "mapi"

Positions == 0..(Len(flakes) - 1)
Flake(n)  == flakes[n + 1]

\* A node with no transaction in it, &Envelope{}.
Empty == [txid |-> None, proof |-> FALSE, mapi |-> FALSE, parents |-> {}]
Root  == <<>>
Node(p) == IF p \in DOMAIN envelope THEN envelope[p] ELSE Empty

Init ==
    /\ version \in {1, 2}
    /\ flakes \in Streams
    /\ main = "start"
    /\ idx = 0
    /\ wg = 0
    /\ routine = [n \in Positions |-> "unborn"]
    /\ collector = "unborn"
    /\ held = 0
    /\ txs = {} /\ proofs = {} /\ mapiCallbacks = {}
    /\ envelope = [p \in {Root} |-> Empty]
    /\ pass = {}
    /\ search = [tx |-> None, at |-> Root]

-----------------------------------------------------------------------------
(* The calling goroutine, up to the end of the collection *)

\* Only version 1 is parsed; the collector is started before any flake is.
Start ==
    /\ main = "start"
    /\ IF version # 1
         THEN main' = "error" /\ UNCHANGED collector
         ELSE main' = "spawn" /\ collector' = "select"
    /\ UNCHANGED <<version, flakes, idx, wg, routine, held, maps, assembly>>

\* Mutant: the flakes that are skipped are counted too.
SpawnCountsAll ==
    /\ main = "spawn"
    /\ idx \in Positions
    /\ idx' = idx + 1
    /\ wg' = wg + 1
    /\ routine' = IF Flake(idx) = Null THEN routine
                                       ELSE [routine EXCEPT ![idx] = "parse"]
    /\ UNCHANGED <<version, flakes, main, collector, held, maps, assembly>>

Spawn ==
    /\ main = "spawn"
    /\ idx \in Positions
    /\ idx' = idx + 1
    /\ IF Flake(idx) = Null
         THEN UNCHANGED <<wg, routine>>
         ELSE wg' = wg + 1 /\ routine' = [routine EXCEPT ![idx] = "parse"]
    /\ UNCHANGED <<version, flakes, main, collector, held, maps, assembly>>

\* Mutant: the calling goroutine does not wait.
WaitNot ==
    /\ main = "spawn"
    /\ idx \notin Positions
    /\ main' = "signal"
    /\ UNCHANGED <<fetching, maps, assembly>>

\* wg.Wait() returns when the counter is zero.
Wait ==
    /\ main = "spawn"
    /\ idx \notin Positions
    /\ wg = 0
    /\ main' = "signal"
    /\ UNCHANGED <<fetching, maps, assembly>>

\* Mutant: the signal does not wait for the collector's select.
SignalAtOnce ==
    /\ main = "signal"
    /\ collector' = "exited"
    /\ main' = "assemble"
    /\ pass' = txs
    /\ UNCHANGED <<version, flakes, idx, wg, routine, held, maps,
                   envelope, search>>

\* done <- true meets the collector in its select.
Signal ==
    /\ main = "signal"
    /\ collector = "select"
    /\ collector' = "exited"
    /\ main' = "assemble"
    /\ pass' = txs
    /\ UNCHANGED <<version, flakes, idx, wg, routine, held, maps,
                   envelope, search>>

-----------------------------------------------------------------------------
(* The goroutine of a flake *)

\* A transaction that does not parse is a nil pointer, whose TxID panics.
\* The goroutine of the first flake makes that transaction the envelope's tip.
Parse(n) ==
    /\ main # "panic"
    /\ routine[n] = "parse"
    /\ IF Kind(n) = "tx" /\ Flake(n) = Bad
         THEN main' = "panic" /\ UNCHANGED <<routine, envelope>>
         ELSE /\ routine' = [routine EXCEPT ![n] = "send"]
              /\ envelope' = IF n = 0
                               THEN [envelope EXCEPT
                                       ![Root].txid = Flake(0),
                                       ![Root].parents = Inputs[Flake(0)]]
                               ELSE envelope
              /\ UNCHANGED main
    /\ UNCHANGED <<version, flakes, idx, wg, collector, held, maps,
                   pass, search>>

\* A send on one of the unbuffered channels meets the collector in its select.
Send(n) ==
    /\ main # "panic"
    /\ routine[n] = "send"
    /\ collector = "select"
    /\ routine' = [routine EXCEPT ![n] = "sent"]
    /\ collector' = "store"
    /\ held' = n
    /\ UNCHANGED <<version, flakes, main, idx, wg, maps, assembly>>

\* The deferred wg.Done().
Done(n) ==
    /\ main # "panic"
    /\ routine[n] = "sent"
    /\ routine' = [routine EXCEPT ![n] = "finished"]
    /\ wg' = wg - 1
    /\ UNCHANGED <<version, flakes, main, idx, collector, held, maps, assembly>>

-----------------------------------------------------------------------------
(* The collector *)

\* A proof that did not parse was sent as a nil pointer, and panics here.
\* Mutant: it is skipped.
Skipped == FALSE
Dies    == Kind(held) = "proof" /\ Flake(held) = Bad

\* A mAPI flake that did not parse was sent as an empty list and is dropped.
Received(kind) == IF Kind(held) = kind THEN {Flake(held)} \ {Bad} ELSE {}

Store ==
    /\ main # "panic"
    /\ collector = "store"
    /\ IF Dies
         THEN main' = "panic" /\ UNCHANGED <<collector, maps>>
         ELSE /\ collector' = "select"
              /\ txs' = txs \cup Received("tx")
              /\ proofs' = proofs \cup Received("proof")
              /\ mapiCallbacks' = mapiCallbacks \cup Received("mapi")
              /\ UNCHANGED main
    /\ UNCHANGED <<version, flakes, idx, wg, routine, held, assembly>>

-----------------------------------------------------------------------------
(* Assembling the envelope *)

\* The next transaction of a pass over the map, in any order.
Try ==
    /\ main = "assemble"
    /\ \E t \in pass : /\ search' = [tx |-> t, at |-> Root]
                       /\ pass' = pass \ {t}
    /\ main' = "search"
    /\ UNCHANGED <<fetching, maps, envelope>>

\* After a pass, the next one, until the map is empty.
NextPass ==
    /\ main = "assemble"
    /\ pass = {}
    /\ IF txs = {} THEN main' = "done" /\ UNCHANGED pass
                   ELSE pass' = txs /\ UNCHANGED main
    /\ UNCHANGED <<fetching, maps, envelope, search>>

Here == Node(search.at)

\* What the map keeps when the transaction has found its place.
\* Mutant: it is not deleted.
RemainingAll == txs
Remaining    == txs \ {search.tx}

\* Mutants of the node made for a transaction: without its callback, and
\* without places for the transactions it spends from.
NodeWithoutMapi(t) ==
    [txid |-> t, proof |-> FALSE, mapi |-> FALSE, parents |-> Inputs[t]]
NodeWithoutParents(t) ==
    [txid |-> t, proof |-> FALSE, mapi |-> t \in mapiCallbacks, parents |-> {}]

\* The node stored for a transaction without a proof.
nextEnvelope(t) ==
    [txid |-> t, proof |-> FALSE, mapi |-> t \in mapiCallbacks,
     parents |-> Inputs[t]]

\* searchParents stands on the node of the transaction itself.
SearchHit ==
    /\ main = "search"
    /\ search.tx = Here.txid
    /\ envelope' = [envelope EXCEPT
                      ![search.at].mapi  = @ \/ search.tx \in mapiCallbacks,
                      ![search.at].proof = @ \/ search.tx \in proofs]
    /\ txs' = Remaining
    /\ main' = "assemble"
    /\ UNCHANGED <<fetching, proofs, mapiCallbacks, pass, search>>

\* It stands on a node that spends from the transaction.  A transaction with
\* a proof is deleted from the map, but the node made for it is not stored.
SearchPlace ==
    /\ main = "search"
    /\ search.tx # Here.txid
    /\ search.tx \in Here.parents
    /\ envelope' =
         IF search.tx \in proofs
           THEN envelope
           ELSE LET p == Append(search.at, search.tx)
                IN  [q \in DOMAIN envelope \cup {p} |->
                       IF q = p THEN nextEnvelope(search.tx) ELSE envelope[q]]
    /\ txs' = Remaining
    /\ main' = "assemble"
    /\ UNCHANGED <<fetching, proofs, mapiCallbacks, pass, search>>

\* Otherwise it goes on to one of the node's parents, whichever the map
\* yields first, and returns what it finds there.
SearchDeeper(u) ==
    /\ main = "search"
    /\ search.tx # Here.txid
    /\ search.tx \notin Here.parents
    /\ u \in Here.parents
    /\ search' = [search EXCEPT !.at = Append(@, u)]
    /\ UNCHANGED <<fetching, maps, envelope, pass, main>>

\* It has no parents to go to.
SearchFails ==
    /\ main = "search"
    /\ search.tx # Here.txid
    /\ Here.parents = {}
    /\ main' = "assemble"
    /\ UNCHANGED <<fetching, maps, assembly>>

-----------------------------------------------------------------------------

Ended == main \in {"done", "error", "panic"}

\* The function has returned, or the process has died.
Stopped == Ended /\ UNCHANGED vars

Main     == \/ Start \/ Spawn \/ Wait \/ Signal
            \/ Try \/ NextPass \/ SearchHit \/ SearchPlace
            \/ (\E u \in Txs : SearchDeeper(u)) \/ SearchFails
Routines == \E n \in Positions : Parse(n) \/ Send(n) \/ Done(n)

Next == Main \/ Routines \/ Store \/ Stopped

\* Every goroutine runs.  The order in which Go ranges over a map is random:
\* the search for a transaction that stands again and again on a node goes on
\* to each of its parents in turn.
Fairness ==
    /\ WF_vars(Main)
    /\ WF_vars(Routines)
    /\ WF_vars(Store)
    /\ \A u \in Txs : \A v \in Inputs[u] : \A t \in Txs \ (Inputs[u] \cup {u}) :
          SF_vars(/\ search.tx = t
                  /\ Here.txid = u
                  /\ SearchDeeper(v))

Spec == Init /\ [][Next]_vars /\ Fairness

-----------------------------------------------------------------------------
(* Properties *)

Assembly == {"assemble", "search", "done"}

TypeOK ==
    /\ main \in {"start", "spawn", "signal", "error", "panic"} \cup Assembly
    /\ idx \in 0..Len(flakes) /\ held \in Positions
    /\ wg = Cardinality({n \in Positions : routine[n] \in {"parse", "send", "sent"}})
    /\ routine \in [Positions -> {"unborn", "parse", "send", "sent", "finished"}]
    /\ collector \in {"unborn", "select", "store", "exited"}
    /\ txs \subseteq Txs /\ proofs \subseteq Txs /\ mapiCallbacks \subseteq Txs
    /\ pass \subseteq Txs
    /\ search \in [tx : Txs \cup {None}, at : Seq(Txs)]

\* What the flakes of a kind that parse are about.
Given(kind) ==
    {Flake(n) : n \in {m \in Positions : Kind(m) = kind /\ Flake(m) \in Txs}}

\* The transactions in the envelope.
Placed == {envelope[p].txid : p \in DOMAIN envelope} \ {None}

\* The calling goroutine reads the maps and writes the envelope without a
\* lock: by then the collector has exited and every goroutine has finished,
\* so none of those accesses can race with theirs.
NoRace ==
    main \in Assembly =>
        /\ collector = "exited"
        /\ \A n \in Positions : routine[n] \in {"unborn", "finished"}

\* Nothing the goroutines sent is lost between their wg.Done and the signal
\* to the collector, which may still hold an item when the wait group is
\* empty: the maps hold every proof and callback, and every transaction that
\* is not in its map any more has a place in the envelope or has a proof.
NothingLost ==
    collector = "exited" =>
        /\ proofs = Given("proof")
        /\ mapiCallbacks = Given("mapi")
        /\ Given("tx") \subseteq txs \cup Placed \cup proofs
        /\ txs \subseteq Given("tx")

\* A transaction or a proof that does not parse never yields an envelope: the
\* parser cannot get past the goroutine, or the collector, that dies of it.
MalformedNeverReturns ==
    main \in Assembly =>
        \A n \in Positions : Flake(n) = Bad => Kind(n) = "mapi"

\* The envelope is a tree of spends: a node other than the root is stored
\* where its transaction is spent, under a node that is stored too; no
\* transaction is stored twice, whatever the order of the passes, and only
\* the tip may have a proof and parents both.
EnvelopeIsTree ==
    \A p \in DOMAIN envelope :
        /\ p # Root =>
              LET q == SubSeq(p, 1, Len(p) - 1) IN
              /\ q \in DOMAIN envelope
              /\ envelope[p].txid = p[Len(p)]
              /\ p[Len(p)] \in Inputs[envelope[q].txid]
              /\ ~ envelope[p].proof
        /\ \A r \in DOMAIN envelope :
              envelope[p].txid = envelope[r].txid => p = r

\* When the parser returns, every transaction of the stream that has no proof
\* is in the envelope, and the callbacks and the proof the stream gives for a
\* transaction in the envelope are attached to it, in whatever order the
\* flakes arrived.
ReturnsWhatWasGiven ==
    main = "done" =>
        /\ Given("tx") \ Given("proof") \subseteq Placed
        /\ \A p \in DOMAIN envelope :
              LET e == envelope[p] IN
              e.txid \in Given("tx") =>
                 /\ e.mapi  = (e.txid \in Given("mapi"))
                 /\ e.proof = (e.txid \in Given("proof"))

\* "keep building struct unless all txs are in the struct": the comment over
\* the assembly loop says the parser returns with every transaction of the
\* stream in the envelope.
AllTxsInStruct == main = "done" => Given("tx") \subseteq Placed

\* Every transaction of the stream is spent by the tip or by one without a
\* proof that is itself connected to the tip.
Connected ==
    /\ Flake(0) \in Txs
    /\ \A S \in SUBSET Given("tx") :
          (/\ Flake(0) \in S
           /\ \A t \in S, u \in Given("tx") :
                 (t = Flake(0) \/ t \notin Given("proof")) /\ u \in Inputs[t]
                 => u \in S)
          => S = Given("tx")

\* The collection always ends: no send, wait or signal blocks for ever.
CollectionEnds == <>(collector = "exited" \/ main \in {"error", "panic"})

\* On a connected stream the parser returns, or dies of a malformed flake:
\* the passes over the map find a place for every transaction.
Termination == Connected => <>Ended

=============================================================================
