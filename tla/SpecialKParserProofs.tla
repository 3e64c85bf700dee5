------------------------- MODULE SpecialKParserProofs -------------------------
(***************************************************************************)
(* Theorems about the goroutines and the envelope of SpecialKParser, for   *)
(* streams of any length about any transactions.                           *)
(***************************************************************************)
EXTENDS SpecialKParser, FiniteSetTheorems, SequenceTheorems, TLAPS

-----------------------------------------------------------------------------
(* The inductive invariant *)

\* The goroutines the wait group counts.
Live == {n \in Positions : routine[n] \in {"parse", "send", "sent"}}

\* The flakes the collector has received, and those it has stored.
Handed(n) == routine[n] \in {"sent", "finished"}
Stored(n) == Handed(n) /\ ~ (collector = "store" /\ held = n)
Kept(kind) ==
    {Flake(n) : n \in {m \in Positions :
                          Stored(m) /\ Kind(m) = kind /\ Flake(m) \in Txs}}

\* Every flake with contents has its goroutine once the loop has come to it,
\* and the calling goroutine gets past the wait when all of them are done.
RoutineInv ==
    /\ \A n \in Positions :
          routine[n] # "unborn" <=> n < idx /\ Flake(n) # Null
    /\ main = "start" => idx = 0
    /\ main \in {"signal"} \cup Assembly => idx = Len(flakes) /\ Live = {}

\* The collector lives until the assembly starts, and holds what was sent.
CollectorInv ==
    /\ collector = "exited" <=> main \in Assembly
    /\ main = "start" => collector = "unborn"
    /\ collector = "store" => Handed(held)

\* A malformed transaction is not sent, and a malformed proof not stored.
MalformedInv ==
    \A n \in Positions :
        Flake(n) = Bad => /\ Kind(n) = "tx" => routine[n] \in {"unborn", "parse"}
                          /\ Kind(n) = "proof" => ~ Stored(n)

\* The maps hold what was stored, but for the transactions in the envelope.
MapsInv ==
    /\ proofs = Kept("proof") /\ mapiCallbacks = Kept("mapi")
    /\ txs \subseteq Kept("tx")
    /\ Kept("tx") \subseteq
          txs \cup (IF main \in Assembly THEN Placed \cup proofs ELSE {})
    /\ main = "search" => search.tx \in Txs

NodeType == [txid : Txs \cup {None}, proof : BOOLEAN, mapi : BOOLEAN,
             parents : SUBSET Txs]

\* A node other than the root is about the transaction its path ends with.
EnvelopeInv ==
    /\ \A p \in DOMAIN envelope : p \in Seq(Txs) /\ envelope[p] \in NodeType
    /\ \A p \in DOMAIN envelope \ {Root} : envelope[p].txid = p[Len(p)]

IInv == /\ flakes \in Streams /\ TypeOK
        /\ RoutineInv /\ CollectorInv /\ MalformedInv /\ MapsInv /\ EnvelopeInv

-----------------------------------------------------------------------------

\* The flakes of a stream, by position.
LEMMA FlakeType ==
    ASSUME flakes \in Streams
    PROVE  /\ Len(flakes) \in Nat \ {0}
           /\ \A n \in Positions : Flake(n) \in Txs \cup {Null, Bad}
           /\ 0 \in Positions /\ Positions \subseteq Nat /\ IsFiniteSet(Positions)
<1>1. flakes \in Seq(Txs \cup {Null, Bad}) /\ Len(flakes) > 0
  BY ParserAssumption
<1>2. Len(flakes) \in Nat \ {0}
  BY <1>1
<1>3. \A n \in Positions : Flake(n) \in Txs \cup {Null, Bad}
  BY <1>1, <1>2 DEF Positions, Flake
<1>4. IsFiniteSet(Positions)
  BY <1>2, FS_Interval DEF Positions
<1> QED
  BY <1>2, <1>3, <1>4 DEF Positions

\* The wait group counts a finite set.
LEMMA LiveIsFinite ==
    ASSUME flakes \in Streams
    PROVE  IsFiniteSet(Live)
BY FlakeType, FS_Subset DEF Live

\* The three kinds of flakes; the first one is a transaction.
LEMMA KindType ==
    /\ \A n \in Positions : Kind(n) \in {"tx", "proof", "mapi"}
    /\ Kind(0) = "tx"
BY DEF Kind

\* The state Init describes satisfies the invariant.
LEMMA InitIInv == Init => IInv
<1> SUFFICES ASSUME Init PROVE IInv
  OBVIOUS
<1>1. flakes \in Streams /\ Len(flakes) \in Nat \ {0} /\ 0 \in Positions
  BY FlakeType DEF Init
<1>2. Live = {} /\ \A n \in Positions : routine[n] = "unborn"
  BY DEF Init, Live
<1>3. TypeOK
  <2>1. wg = Cardinality(Live)
    BY <1>2, FS_EmptySet DEF Init
  <2>2. routine \in [Positions -> {"unborn", "parse", "send", "sent", "finished"}]
    BY DEF Init
  <2>3. search \in [tx : Txs \cup {None}, at : Seq(Txs)]
    BY DEF Init, Root
  <2> QED
    BY <1>1, <2>1, <2>2, <2>3 DEF Init, TypeOK, Live
<1>4. RoutineInv
  BY <1>1, <1>2 DEF Init, RoutineInv, Positions, Assembly
<1>5. CollectorInv
  BY DEF Init, CollectorInv, Assembly
<1>6. MalformedInv
  BY <1>2 DEF MalformedInv, Stored, Handed
<1>7. MapsInv
  <2>1. \A kind : Kept(kind) = {}
    BY <1>2 DEF Kept, Stored, Handed
  <2> QED
    BY <2>1 DEF Init, MapsInv, Assembly
<1>8. EnvelopeInv
  <2>1. Empty \in NodeType /\ Root \in Seq(Txs)
    BY DEF NodeType, Empty, Root
  <2>2. DOMAIN envelope = {Root} /\ envelope[Root] = Empty
    BY DEF Init
  <2> QED
    BY <2>1, <2>2 DEF EnvelopeInv
<1> QED
  BY <1>1, <1>3, <1>4, <1>5, <1>6, <1>7, <1>8 DEF IInv

-----------------------------------------------------------------------------
(* Steps *)

\* What the steps that change no routine, collector or map leave alone.
LEMMA SameFlakes ==
    ASSUME UNCHANGED flakes
    PROVE  /\ Positions' = Positions
           /\ \A n : Flake(n)' = Flake(n) /\ Kind(n)' = Kind(n)
BY DEF Positions, Flake, Kind

\* The flakes stored change with the goroutines and the collector alone.
LEMMA SameKept ==
    ASSUME UNCHANGED flakes, \A n \in Positions : Stored(n)' = Stored(n)
    PROVE  \A kind : Kept(kind)' = Kept(kind)
BY SameFlakes DEF Kept

\* The first byte is looked at.
LEMMA StartStep == IInv /\ Start => IInv'
<1> SUFFICES ASSUME IInv, Start PROVE IInv'
  OBVIOUS
<1>1. /\ main = "start" /\ collector = "unborn"
      /\ \/ main' = "error" /\ collector' = "unborn"
         \/ main' = "spawn" /\ collector' = "select"
      /\ UNCHANGED <<version, flakes, idx, wg, routine, held, txs, proofs,
                     mapiCallbacks, envelope, pass, search>>
  BY DEF Start, IInv, CollectorInv, maps, assembly
<1>2. \A n \in Positions : Stored(n)' = Stored(n)
  BY <1>1 DEF Stored, Handed
<1>3. \A kind : Kept(kind)' = Kept(kind)
  BY <1>1, <1>2, SameKept
<1>4. TypeOK'
  BY <1>1, SameFlakes DEF IInv, TypeOK
<1>5. RoutineInv'
  BY <1>1, SameFlakes DEF IInv, RoutineInv, Assembly
<1>6. CollectorInv'
  BY <1>1 DEF CollectorInv, Assembly
<1>7. MalformedInv'
  BY <1>1, <1>2, SameFlakes DEF IInv, MalformedInv
<1>8. MapsInv'
  BY <1>1, <1>3 DEF IInv, MapsInv, Assembly
<1>9. EnvelopeInv'
  BY <1>1 DEF IInv, EnvelopeInv, NodeType
<1> QED
  BY <1>1, <1>4, <1>5, <1>6, <1>7, <1>8, <1>9 DEF IInv

\* A flake with contents gets a goroutine, and is counted.
LEMMA SpawnStep == IInv /\ Spawn => IInv'
<1> SUFFICES ASSUME IInv, Spawn PROVE IInv'
  OBVIOUS
<1>1. /\ main = "spawn" /\ idx \in Positions /\ idx' = idx + 1
      /\ UNCHANGED <<version, flakes, main, collector, held, txs, proofs,
                     mapiCallbacks, envelope, pass, search>>
      /\ \/ Flake(idx) = Null /\ UNCHANGED <<wg, routine>>
         \/ /\ Flake(idx) # Null
            /\ wg' = wg + 1 /\ routine' = [routine EXCEPT ![idx] = "parse"]
  BY DEF Spawn, maps, assembly
<1>2. routine[idx] = "unborn"
  BY <1>1, FlakeType DEF IInv, RoutineInv
<1>3. /\ routine' \in [Positions -> {"unborn", "parse", "send", "sent", "finished"}]
      /\ \A n \in Positions \ {idx} : routine'[n] = routine[n]
      /\ routine'[idx] = IF Flake(idx) = Null THEN "unborn" ELSE "parse"
  BY <1>1, <1>2 DEF IInv, TypeOK
<1>4. \A n \in Positions : Stored(n)' = Stored(n)
  BY <1>1, <1>2, <1>3 DEF Stored, Handed
<1>5. \A kind : Kept(kind)' = Kept(kind)
  BY <1>1, <1>4, SameKept
<1>6. wg' = Cardinality(Live')
  <2>1. wg = Cardinality(Live) /\ IsFiniteSet(Live) /\ idx \notin Live
    BY <1>2, LiveIsFinite DEF IInv, TypeOK, Live
  <2>2. CASE Flake(idx) = Null
    BY <1>1, <2>1, <2>2, SameFlakes DEF Live
  <2>3. CASE Flake(idx) # Null
    <3>1. Live' = Live \cup {idx}
      BY <1>1, <1>3, <2>3, SameFlakes DEF Live
    <3> QED
      BY <1>1, <2>1, <2>3, <3>1, FS_AddElement
  <2> QED
    BY <2>2, <2>3
<1>7. TypeOK'
  <2>1. idx' \in 0..Len(flakes)
    BY <1>1, FlakeType DEF Positions, IInv
  <2> QED
    BY <1>1, <1>3, <1>6, <2>1, SameFlakes DEF IInv, TypeOK, Live
<1>8. RoutineInv'
  <2>1. \A n \in Positions : routine'[n] # "unborn" <=> n < idx' /\ Flake(n) # Null
    <3> TAKE n \in Positions
    <3>1. n \in Nat /\ idx \in Nat
      BY <1>1, FlakeType DEF IInv
    <3> QED
      BY <1>1, <1>3, <3>1 DEF IInv, RoutineInv
  <2> QED
    BY <1>1, <2>1, SameFlakes DEF RoutineInv, Assembly
<1>9. CollectorInv'
  BY <1>1, <1>2, <1>3 DEF IInv, CollectorInv, Handed, TypeOK
<1>10. MalformedInv'
  BY <1>1, <1>3, <1>4, SameFlakes DEF IInv, MalformedInv
<1>11. MapsInv'
  BY <1>1, <1>5 DEF IInv, MapsInv, Assembly
<1>12. EnvelopeInv'
  BY <1>1 DEF IInv, EnvelopeInv, NodeType
<1> QED
  BY <1>1, <1>7, <1>8, <1>9, <1>10, <1>11, <1>12 DEF IInv

\* The wait ends when no goroutine is left.
LEMMA WaitStep == IInv /\ Wait => IInv'
<1> SUFFICES ASSUME IInv, Wait PROVE IInv'
  OBVIOUS
<1>1. /\ main = "spawn" /\ idx \notin Positions /\ wg = 0 /\ main' = "signal"
      /\ UNCHANGED <<version, flakes, idx, wg, routine, collector, held, txs,
                     proofs, mapiCallbacks, envelope, pass, search>>
  BY DEF Wait, fetching, maps, assembly
<1>2. \A n \in Positions : Stored(n)' = Stored(n)
  BY <1>1 DEF Stored, Handed
<1>3. \A kind : Kept(kind)' = Kept(kind)
  BY <1>1, <1>2, SameKept
<1>4. TypeOK'
  BY <1>1, SameFlakes DEF IInv, TypeOK
<1>5. RoutineInv'
  <2>1. Live = {}
    BY <1>1, LiveIsFinite, FS_EmptySet DEF IInv, TypeOK, Live
  <2>2. Live' = Live
    BY <1>1, SameFlakes DEF Live
  <2>3. idx = Len(flakes)
    BY <1>1, FlakeType DEF IInv, TypeOK, Positions
  <2> QED
    BY <1>1, <2>1, <2>2, <2>3, SameFlakes DEF IInv, RoutineInv
<1>6. CollectorInv'
  BY <1>1 DEF IInv, CollectorInv, Assembly, Handed
<1>7. MalformedInv'
  BY <1>1, <1>2, SameFlakes DEF IInv, MalformedInv
<1>8. MapsInv'
  BY <1>1, <1>3 DEF IInv, MapsInv, Assembly
<1>9. EnvelopeInv'
  BY <1>1 DEF IInv, EnvelopeInv, NodeType
<1> QED
  BY <1>1, <1>4, <1>5, <1>6, <1>7, <1>8, <1>9 DEF IInv

\* The collector is idle when it is told to end: it has stored all it got.
LEMMA SignalStep == IInv /\ Signal => IInv'
<1> SUFFICES ASSUME IInv, Signal PROVE IInv'
  OBVIOUS
<1>1. /\ main = "signal" /\ collector = "select" /\ collector' = "exited"
      /\ main' = "assemble" /\ pass' = txs
      /\ UNCHANGED <<version, flakes, idx, wg, routine, held, txs, proofs,
                     mapiCallbacks, envelope, search>>
  BY DEF Signal, maps
<1>2. \A n \in Positions : Stored(n)' = Stored(n)
  BY <1>1 DEF Stored, Handed
<1>3. \A kind : Kept(kind)' = Kept(kind)
  BY <1>1, <1>2, SameKept
<1>4. TypeOK'
  BY <1>1, SameFlakes DEF IInv, TypeOK, Assembly
<1>5. RoutineInv'
  <2>1. Live' = Live
    BY <1>1, SameFlakes DEF Live
  <2> QED
    BY <1>1, <2>1, SameFlakes DEF IInv, RoutineInv
<1>6. CollectorInv'
  BY <1>1 DEF CollectorInv, Assembly
<1>7. MalformedInv'
  BY <1>1, <1>2, SameFlakes DEF IInv, MalformedInv
<1>8. MapsInv'
  BY <1>1, <1>3 DEF IInv, MapsInv, Assembly
<1>9. EnvelopeInv'
  BY <1>1 DEF IInv, EnvelopeInv, NodeType
<1> QED
  BY <1>1, <1>4, <1>5, <1>6, <1>7, <1>8, <1>9 DEF IInv

\* A flake is parsed; the first one becomes the tip of the envelope.
LEMMA ParseStep == ASSUME IInv, NEW n \in Positions, Parse(n) PROVE IInv'
<1>1. /\ routine[n] = "parse" /\ main # "panic"
      /\ UNCHANGED <<version, flakes, idx, wg, collector, held, txs, proofs,
                     mapiCallbacks, pass, search>>
  BY DEF Parse, maps
<1>2. /\ Flake(n) # Null /\ n \in Live /\ main \notin {"start", "signal"} \cup Assembly
  BY <1>1, FlakeType DEF IInv, RoutineInv, Live
<1>3. \/ main' = "panic" /\ UNCHANGED <<routine, envelope>>
      \/ /\ Kind(n) = "tx" => Flake(n) # Bad
         /\ routine' = [routine EXCEPT ![n] = "send"]
         /\ envelope' = IF n = 0
                          THEN [envelope EXCEPT ![Root].txid = Flake(0),
                                                ![Root].parents = Inputs[Flake(0)]]
                          ELSE envelope
         /\ UNCHANGED main
  BY DEF Parse
<1>4. /\ routine' \in [Positions -> {"unborn", "parse", "send", "sent", "finished"}]
      /\ \A m \in Positions \ {n} : routine'[m] = routine[m]
      /\ routine'[n] \in {"parse", "send"}
      /\ routine'[n] = "send" => (Kind(n) = "tx" => Flake(n) # Bad)
  BY <1>1, <1>3 DEF IInv, TypeOK
<1>5. \A m \in Positions : Stored(m)' = Stored(m)
  BY <1>1, <1>4 DEF Stored, Handed
<1>6. \A kind : Kept(kind)' = Kept(kind)
  BY <1>1, <1>5, SameKept
<1>7. Live' = Live
  BY <1>1, <1>4, SameFlakes DEF Live
<1>8. main' \notin {"start", "signal"} \cup Assembly
  BY <1>2, <1>3 DEF Assembly
<1>9. TypeOK'
  BY <1>1, <1>3, <1>4, <1>7, SameFlakes DEF IInv, TypeOK, Live
<1>10. RoutineInv'
  BY <1>1, <1>4, <1>8, SameFlakes DEF IInv, RoutineInv
<1>11. CollectorInv'
  <2>1. collector' = "store" => Handed(held)'
    BY <1>1, <1>4 DEF IInv, CollectorInv, Handed, TypeOK
  <2> QED
    BY <1>1, <1>2, <1>8, <2>1 DEF IInv, CollectorInv
<1>12. MalformedInv'
  BY <1>1, <1>4, <1>5, SameFlakes DEF IInv, MalformedInv
<1>13. MapsInv'
  BY <1>1, <1>2, <1>6, <1>8 DEF IInv, MapsInv, Assembly
<1>14. EnvelopeInv'
  <2>1. CASE UNCHANGED envelope
    BY <2>1 DEF IInv, EnvelopeInv, NodeType
  <2>2. CASE /\ n = 0 /\ Flake(0) # Bad
             /\ envelope' = [envelope EXCEPT ![Root].txid = Flake(0),
                                             ![Root].parents = Inputs[Flake(0)]]
    <3>1. Flake(0) \in Txs /\ Inputs[Flake(0)] \in SUBSET Txs
      BY <1>2, <2>2, FlakeType, ParserAssumption DEF IInv
    <3>2. /\ DOMAIN envelope' = DOMAIN envelope
          /\ \A p \in DOMAIN envelope \ {Root} : envelope'[p] = envelope[p]
          /\ Root \in DOMAIN envelope =>
                envelope'[Root] = [envelope[Root] EXCEPT !.txid = Flake(0),
                                                !.parents = Inputs[Flake(0)]]
      BY <2>2
    <3>3. Root \in DOMAIN envelope => envelope'[Root] \in NodeType
      BY <3>1, <3>2 DEF IInv, EnvelopeInv, NodeType
    <3>4. \A p \in DOMAIN envelope : envelope'[p] \in NodeType
      BY <3>2, <3>3 DEF IInv, EnvelopeInv
    <3> QED
      BY <3>2, <3>4 DEF IInv, EnvelopeInv, NodeType
  <2> QED
    BY <1>3, <2>1, <2>2, KindType
<1> QED
  BY <1>1, <1>9, <1>10, <1>11, <1>12, <1>13, <1>14 DEF IInv

\* A flake passes from its goroutine to the collector.
LEMMA SendStep == ASSUME IInv, NEW n \in Positions, Send(n) PROVE IInv'
<1>1. /\ routine[n] = "send" /\ collector = "select" /\ main # "panic"
      /\ routine' = [routine EXCEPT ![n] = "sent"]
      /\ collector' = "store" /\ held' = n
      /\ UNCHANGED <<version, flakes, main, idx, wg, txs, proofs, mapiCallbacks,
                     envelope, pass, search>>
  BY DEF Send, maps, assembly
<1>2. n \in Live /\ main \notin {"start", "signal"} \cup Assembly
  BY <1>1, FlakeType DEF IInv, RoutineInv, Live, CollectorInv
<1>3. /\ routine' \in [Positions -> {"unborn", "parse", "send", "sent", "finished"}]
      /\ \A m \in Positions \ {n} : routine'[m] = routine[m]
      /\ routine'[n] = "sent"
  BY <1>1 DEF IInv, TypeOK
<1>4. \A m \in Positions : Stored(m)' = Stored(m)
  BY <1>1, <1>3 DEF Stored, Handed
<1>5. \A kind : Kept(kind)' = Kept(kind)
  BY <1>1, <1>4, SameKept
<1>6. Live' = Live
  BY <1>1, <1>3, SameFlakes DEF Live
<1>7. TypeOK'
  BY <1>1, <1>3, <1>6, SameFlakes DEF IInv, TypeOK, Live
<1>8. RoutineInv'
  BY <1>1, <1>2, <1>3, SameFlakes DEF IInv, RoutineInv
<1>9. CollectorInv'
  BY <1>1, <1>2, <1>3 DEF CollectorInv, Handed
<1>10. MalformedInv'
  BY <1>1, <1>3, <1>4, SameFlakes DEF IInv, MalformedInv
<1>11. MapsInv'
  BY <1>1, <1>2, <1>5 DEF IInv, MapsInv, Assembly
<1>12. EnvelopeInv'
  BY <1>1 DEF IInv, EnvelopeInv, NodeType
<1> QED
  BY <1>1, <1>7, <1>8, <1>9, <1>10, <1>11, <1>12 DEF IInv

\* A goroutine that has sent its flake is counted off.
LEMMA DoneStep == ASSUME IInv, NEW n \in Positions, Done(n) PROVE IInv'
<1>1. /\ routine[n] = "sent" /\ main # "panic"
      /\ routine' = [routine EXCEPT ![n] = "finished"] /\ wg' = wg - 1
      /\ UNCHANGED <<version, flakes, main, idx, collector, held, txs, proofs,
                     mapiCallbacks, envelope, pass, search>>
  BY DEF Done, maps, assembly
<1>2. n \in Live /\ main \notin {"start", "signal"} \cup Assembly
  BY <1>1, FlakeType DEF IInv, RoutineInv, Live
<1>3. /\ routine' \in [Positions -> {"unborn", "parse", "send", "sent", "finished"}]
      /\ \A m \in Positions \ {n} : routine'[m] = routine[m]
      /\ routine'[n] = "finished"
  BY <1>1 DEF IInv, TypeOK
<1>4. \A m \in Positions : Stored(m)' = Stored(m)
  BY <1>1, <1>3 DEF Stored, Handed
<1>5. \A kind : Kept(kind)' = Kept(kind)
  BY <1>1, <1>4, SameKept
<1>6. wg' = Cardinality(Live')
  <2>1. wg = Cardinality(Live) /\ IsFiniteSet(Live)
    BY LiveIsFinite DEF IInv, TypeOK, Live
  <2>2. Live' = Live \ {n}
    BY <1>1, <1>3, SameFlakes DEF Live
  <2> QED
    BY <1>1, <1>2, <2>1, <2>2, FS_RemoveElement
<1>7. TypeOK'
  BY <1>1, <1>3, <1>6, SameFlakes DEF IInv, TypeOK, Live
<1>8. RoutineInv'
  BY <1>1, <1>2, <1>3, SameFlakes DEF IInv, RoutineInv
<1>9. CollectorInv'
  BY <1>1, <1>2, <1>3 DEF IInv, CollectorInv, Handed, TypeOK
<1>10. MalformedInv'
  BY <1>1, <1>3, <1>4, SameFlakes DEF IInv, MalformedInv
<1>11. MapsInv'
  BY <1>1, <1>2, <1>5 DEF IInv, MapsInv, Assembly
<1>12. EnvelopeInv'
  BY <1>1 DEF IInv, EnvelopeInv, NodeType
<1> QED
  BY <1>1, <1>7, <1>8, <1>9, <1>10, <1>11, <1>12 DEF IInv

\* The collector stores what it received, or dies of a malformed proof.
LEMMA StoreStep == IInv /\ Store => IInv'
<1> SUFFICES ASSUME IInv, Store PROVE IInv'
  OBVIOUS
<1>1. /\ main # "panic" /\ collector = "store" /\ held \in Positions /\ Handed(held)
      /\ UNCHANGED <<version, flakes, idx, wg, routine, held, envelope, pass, search>>
      /\ main \notin {"start"} \cup Assembly
  BY DEF Store, assembly, IInv, CollectorInv, TypeOK
<1>2. Live' = Live
  BY <1>1, SameFlakes DEF Live
<1>3. Flake(held) \in Txs \cup {Bad}
  BY <1>1, FlakeType DEF IInv, RoutineInv, Handed
<1>4. CASE Dies
  <2>1. /\ main' = "panic" /\ collector' = "store"
        /\ UNCHANGED <<txs, proofs, mapiCallbacks>>
    BY <1>1, <1>4 DEF Store, maps
  <2>2. \A m \in Positions : Stored(m)' = Stored(m)
    BY <1>1, <2>1 DEF Stored, Handed
  <2>3. \A kind : Kept(kind)' = Kept(kind)
    BY <1>1, <2>2, SameKept
  <2>4. TypeOK'
    BY <1>1, <2>1, SameFlakes DEF IInv, TypeOK
  <2>5. RoutineInv' /\ CollectorInv'
    BY <1>1, <2>1, SameFlakes DEF IInv, RoutineInv, CollectorInv, Handed, Assembly
  <2>6. MalformedInv'
    BY <1>1, <2>2, SameFlakes DEF IInv, MalformedInv
  <2>7. MapsInv'
    BY <1>1, <2>1, <2>3 DEF IInv, MapsInv, Assembly
  <2>8. EnvelopeInv'
    BY <1>1 DEF IInv, EnvelopeInv, NodeType
  <2> QED
    BY <1>1, <2>4, <2>5, <2>6, <2>7, <2>8 DEF IInv
<1>5. CASE ~ Dies
  <2>1. /\ main' = main /\ collector' = "select"
        /\ txs' = txs \cup Received("tx")
        /\ proofs' = proofs \cup Received("proof")
        /\ mapiCallbacks' = mapiCallbacks \cup Received("mapi")
    BY <1>5 DEF Store
  <2>2. \A m \in Positions : Stored(m)' <=> Stored(m) \/ m = held
    BY <1>1, <2>1 DEF Stored, Handed
  <2>3. ASSUME NEW kind PROVE Kept(kind)' = Kept(kind) \cup Received(kind)
    <3>1. Kept(kind)' = {Flake(m) : m \in {p \in Positions :
              (Stored(p) \/ p = held) /\ Kind(p) = kind /\ Flake(p) \in Txs}}
      BY <1>1, <2>2, SameFlakes DEF Kept
    <3>2. Received(kind) = {Flake(m) : m \in {p \in Positions :
              p = held /\ Kind(p) = kind /\ Flake(p) \in Txs}}
      BY <1>1, <1>3, ParserAssumption DEF Received
    <3> QED
      BY <3>1, <3>2 DEF Kept
  <2>4. \A kind : Received(kind) \subseteq Txs
    BY <1>3 DEF Received
  <2>5. TypeOK'
    BY <1>1, <2>1, <2>4, SameFlakes DEF IInv, TypeOK
  <2>6. RoutineInv'
    BY <1>1, <1>2, <2>1, SameFlakes DEF IInv, RoutineInv
  <2>7. CollectorInv'
    BY <1>1, <2>1 DEF IInv, CollectorInv
  <2>8. MalformedInv'
    BY <1>1, <1>5, <2>2, SameFlakes DEF IInv, MalformedInv, Dies
  <2>9. MapsInv'
    BY <1>1, <2>1, <2>3 DEF IInv, MapsInv, Assembly
  <2>10. EnvelopeInv'
    BY <1>1 DEF IInv, EnvelopeInv, NodeType
  <2> QED
    BY <1>1, <2>5, <2>6, <2>7, <2>8, <2>9, <2>10 DEF IInv
<1> QED
  BY <1>4, <1>5

\* A step of the assembly that stores and deletes nothing.
LEMMA WalkStep ==
    ASSUME IInv, main \in {"assemble", "search"}, main' \in Assembly,
           UNCHANGED <<fetching, maps, envelope>>,
           pass' \subseteq Txs,
           search' \in [tx : Txs \cup {None}, at : Seq(Txs)],
           main' = "search" => search'.tx \in Txs
    PROVE  IInv'
<1>1. UNCHANGED <<version, flakes, idx, wg, routine, collector, held, txs, proofs,
                  mapiCallbacks, envelope>>
  BY DEF fetching, maps
<1>2. \A n \in Positions : Stored(n)' = Stored(n)
  BY <1>1 DEF Stored, Handed
<1>3. \A kind : Kept(kind)' = Kept(kind)
  BY <1>1, <1>2, SameKept
<1>4. Live' = Live /\ Placed' = Placed
  BY <1>1, SameFlakes DEF Live, Placed
<1>5. main \in Assembly /\ main' \notin {"start"}
  BY DEF Assembly
<1>6. TypeOK'
  BY <1>1, SameFlakes DEF IInv, TypeOK
<1>7. RoutineInv'
  BY <1>1, <1>4, <1>5, SameFlakes DEF IInv, RoutineInv
<1>8. CollectorInv'
  BY <1>1, <1>5 DEF IInv, CollectorInv, Handed
<1>9. MalformedInv'
  BY <1>1, <1>2, SameFlakes DEF IInv, MalformedInv
<1>10. MapsInv'
  BY <1>1, <1>3, <1>4, <1>5 DEF IInv, MapsInv
<1>11. EnvelopeInv'
  BY <1>1 DEF IInv, EnvelopeInv, NodeType
<1> QED
  BY <1>1, <1>6, <1>7, <1>8, <1>9, <1>10, <1>11 DEF IInv

\* The passes over the map, and the way down the envelope.
LEMMA SearchStep ==
    ASSUME IInv, Try \/ NextPass \/ (\E u \in Txs : SearchDeeper(u)) \/ SearchFails
    PROVE  IInv'
<1> DEFINE Call == [tx : Txs \cup {None}, at : Seq(Txs)]
<1>1. /\ pass \subseteq Txs /\ txs \subseteq Txs /\ search \in Call
      /\ main = "search" => search.tx \in Txs
  BY DEF IInv, TypeOK, MapsInv
<1>2. CASE Try
  <2>1. PICK t \in pass : search' = [tx |-> t, at |-> Root] /\ pass' = pass \ {t}
    BY <1>2 DEF Try
  <2>2. search'.tx \in Txs /\ search' \in Call /\ pass' \subseteq Txs
    BY <1>1, <2>1 DEF Root
  <2> QED
    BY <1>2, <2>2, WalkStep DEF Try, Assembly
<1>3. CASE NextPass
  <2>1. /\ main = "assemble" /\ main' \in {"assemble", "done"} /\ pass' \subseteq Txs
        /\ search' = search /\ UNCHANGED <<fetching, maps, envelope>>
    BY <1>1, <1>3 DEF NextPass
  <2>2. search' \in Call /\ main' # "search" /\ main' \in Assembly
    BY <1>1, <2>1 DEF Assembly
  <2> QED
    BY <2>1, <2>2, WalkStep
<1>4. CASE \E u \in Txs : SearchDeeper(u)
  <2>1. PICK u \in Txs : SearchDeeper(u)
    BY <1>4
  <2>2. /\ main = "search" /\ main' = "search" /\ pass' = pass
        /\ search' = [search EXCEPT !.at = Append(search.at, u)]
        /\ UNCHANGED <<fetching, maps, envelope>>
    BY <2>1 DEF SearchDeeper
  <2>3. Append(search.at, u) \in Seq(Txs)
    BY <1>1
  <2>4. search'.tx \in Txs /\ search' \in Call
    BY <1>1, <2>2, <2>3
  <2> QED
    BY <1>1, <2>2, <2>4, WalkStep DEF Assembly
<1>5. CASE SearchFails
  <2>1. /\ main = "search" /\ main' = "assemble" /\ pass' = pass
        /\ search' = search /\ UNCHANGED <<fetching, maps, envelope>>
    BY <1>5 DEF SearchFails, assembly
  <2>2. search' \in Call /\ main' # "search" /\ main' \in Assembly
    BY <1>1, <2>1 DEF Assembly
  <2> QED
    BY <1>1, <2>1, <2>2, WalkStep
<1> QED
  BY <1>2, <1>3, <1>4, <1>5

\* A transaction leaves the map for a place in the envelope, where it is
\* spent or where it already is, or because it has a proof.
LEMMA PlaceStep == ASSUME IInv, SearchHit \/ SearchPlace PROVE IInv'
<1>1. /\ main = "search" /\ main' = "assemble" /\ search.tx \in Txs
      /\ search.at \in Seq(Txs) /\ txs' = txs \ {search.tx}
      /\ UNCHANGED <<version, flakes, idx, wg, routine, collector, held, proofs,
                     mapiCallbacks, pass, search>>
  BY DEF SearchHit, SearchPlace, Remaining, fetching, IInv, MapsInv, TypeOK
<1>2. \A n \in Positions : Stored(n)' = Stored(n)
  BY <1>1 DEF Stored, Handed
<1>3. \A kind : Kept(kind)' = Kept(kind)
  BY <1>1, <1>2, SameKept
<1>4. Live' = Live
  BY <1>1, SameFlakes DEF Live
<1>5. /\ EnvelopeInv' /\ Placed \subseteq Placed'
      /\ search.tx \in Placed' \cup proofs
  <2>1. CASE SearchHit
    <3>1. /\ DOMAIN envelope' = DOMAIN envelope
          /\ \A p \in DOMAIN envelope \ {search.at} : envelope'[p] = envelope[p]
      BY <2>1 DEF SearchHit
    <3>2. \A p \in DOMAIN envelope : /\ envelope'[p] \in NodeType
                                     /\ envelope'[p].txid = envelope[p].txid
      <4> DEFINE e == envelope[search.at]
                 x == e.mapi \/ search.tx \in mapiCallbacks
                 y == e.proof \/ search.tx \in proofs
      <4>1. search.at \in DOMAIN envelope =>
               envelope'[search.at] = [e EXCEPT !.mapi = x, !.proof = y]
        BY <2>1 DEF SearchHit
      <4>2. x \in BOOLEAN /\ y \in BOOLEAN
        OBVIOUS
      <4>3. \A p \in DOMAIN envelope : envelope[p] \in NodeType
        BY DEF IInv, EnvelopeInv
      <4> HIDE DEF x, y
      <4>4. ASSUME search.at \in DOMAIN envelope
            PROVE  /\ envelope'[search.at] \in NodeType
                   /\ envelope'[search.at].txid = envelope[search.at].txid
        <5>1. e \in NodeType
          BY <4>3, <4>4
        <5> HIDE DEF e
        <5>2. /\ [e EXCEPT !.mapi = x, !.proof = y] \in NodeType
              /\ [e EXCEPT !.mapi = x, !.proof = y].txid = e.txid
          BY <4>2, <5>1 DEF NodeType
        <5> QED
          BY <4>1, <4>4, <5>2 DEF e
      <4> HIDE DEF e
      <4> QED
        BY <3>1, <4>3, <4>4
    <3>3. search.tx = Node(search.at).txid /\ search.tx # None
      BY <1>1, <2>1, ParserAssumption DEF SearchHit, Here
    <3>4. search.at \in DOMAIN envelope /\ search.tx = envelope[search.at].txid
      BY <3>3 DEF Node, Empty
    <3> QED
      BY <3>1, <3>2, <3>3, <3>4 DEF IInv, EnvelopeInv, Placed, NodeType
  <2>2. CASE SearchPlace /\ search.tx \in proofs
    <3>1. envelope' = envelope
      BY <2>2 DEF SearchPlace
    <3> QED
      BY <2>2, <3>1 DEF IInv, EnvelopeInv, Placed, NodeType
  <2>3. CASE SearchPlace /\ search.tx \notin proofs
    <3> DEFINE p == Append(search.at, search.tx)
    <3>1. /\ DOMAIN envelope' = DOMAIN envelope \cup {p}
          /\ \A q \in DOMAIN envelope \ {p} : envelope'[q] = envelope[q]
          /\ envelope'[p] = nextEnvelope(search.tx)
      BY <2>3 DEF SearchPlace
    <3>2. p \in Seq(Txs) /\ p # Root /\ p[Len(p)] = search.tx
      BY <1>1 DEF Root
    <3>3. nextEnvelope(search.tx) \in NodeType /\ nextEnvelope(search.tx).txid = search.tx
      BY <1>1, ParserAssumption DEF nextEnvelope, NodeType
    <3>4. search.tx # None
      BY <1>1, ParserAssumption
    <3> HIDE DEF p
    <3>5. EnvelopeInv'
      BY <3>1, <3>2, <3>3 DEF IInv, EnvelopeInv, NodeType
    <3>6. \A q \in DOMAIN envelope : envelope'[q].txid = envelope[q].txid
      BY <3>1, <3>2, <3>3 DEF IInv, EnvelopeInv
    <3> QED
      BY <3>1, <3>3, <3>4, <3>5, <3>6 DEF Placed
  <2> QED
    BY <2>1, <2>2, <2>3
<1>6. TypeOK'
  BY <1>1, SameFlakes DEF IInv, TypeOK, Assembly
<1>7. RoutineInv'
  BY <1>1, <1>4, SameFlakes DEF IInv, RoutineInv, Assembly
<1>8. CollectorInv'
  BY <1>1 DEF IInv, CollectorInv, Handed, Assembly
<1>9. MalformedInv'
  BY <1>1, <1>2, SameFlakes DEF IInv, MalformedInv
<1>10. MapsInv'
  BY <1>1, <1>3, <1>5 DEF IInv, MapsInv, Assembly
<1> QED
  BY <1>1, <1>5, <1>6, <1>7, <1>8, <1>9, <1>10 DEF IInv

\* The invariant holds however the goroutines interleave.
THEOREM Invariance == Spec => []IInv
<1>1. Init => IInv
  BY InitIInv
<1>2. IInv /\ [Next]_vars => IInv'
  <2> SUFFICES ASSUME IInv, [Next]_vars PROVE IInv'
    OBVIOUS
  <2>1. CASE Main
    BY <2>1, StartStep, SpawnStep, WaitStep, SignalStep, SearchStep, PlaceStep
       DEF Main
  <2>2. CASE Routines
    BY <2>2, ParseStep, SendStep, DoneStep DEF Routines
  <2>3. CASE Store
    BY <2>3, StoreStep
  <2>4. CASE UNCHANGED vars
    <3>1. UNCHANGED <<version, flakes, main, idx, wg, routine, collector, held,
                      txs, proofs, mapiCallbacks, envelope, pass, search>>
      BY <2>4 DEF vars
    <3>2. \A kind : Kept(kind)' = Kept(kind)
      BY <3>1, SameKept DEF Stored, Handed
    <3>3. TypeOK' /\ RoutineInv' /\ CollectorInv'
      BY <3>1, SameFlakes
         DEF IInv, TypeOK, RoutineInv, CollectorInv, Live, Handed
    <3>4. MalformedInv' /\ MapsInv'
      BY <3>1, <3>2, SameFlakes
         DEF IInv, MalformedInv, MapsInv, Stored, Handed, Placed
    <3>5. EnvelopeInv'
      BY <3>1 DEF IInv, EnvelopeInv, NodeType
    <3> QED
      BY <3>1, <3>3, <3>4, <3>5 DEF IInv
  <2> QED
    BY <2>1, <2>2, <2>3, <2>4 DEF Next, Stopped
<1> QED
  BY <1>1, <1>2, PTL DEF Spec

-----------------------------------------------------------------------------
(* What follows from it *)

\* Every variable has its type, and the wait group counts the goroutines
\* that have not finished, never less than none.
THEOREM TypeCorrect == Spec => []TypeOK
<1>1. IInv => TypeOK
  BY DEF IInv
<1> QED
  BY <1>1, Invariance, PTL

\* When the calling goroutine goes to the maps and the envelope without a
\* lock, no other goroutine can be using them.
THEOREM RaceFreedom == Spec => []NoRace
<1>1. IInv => NoRace
  <2> SUFFICES ASSUME IInv, main \in Assembly
               PROVE  /\ collector = "exited"
                      /\ \A n \in Positions : routine[n] \in {"unborn", "finished"}
    BY DEF NoRace
  <2>1. collector = "exited" /\ Live = {}
    BY DEF IInv, CollectorInv, RoutineInv
  <2> QED
    BY <2>1 DEF IInv, TypeOK, Live
<1> QED
  BY <1>1, Invariance, PTL

\* Once the caller is past the wait and the collector holds nothing, every
\* flake with contents was stored.
LEMMA AllStored ==
    ASSUME IInv, main \in {"signal"} \cup Assembly, collector # "store"
    PROVE  /\ \A n \in Positions : Flake(n) # Null => Stored(n)
           /\ \A kind : Kept(kind) = Given(kind)
<1>1. Live = {} /\ idx = Len(flakes)
  BY DEF IInv, RoutineInv
<1>2. \A n \in Positions : Flake(n) # Null => Stored(n)
  <2> SUFFICES ASSUME NEW n \in Positions, Flake(n) # Null PROVE Stored(n)
    OBVIOUS
  <2>1. n < idx
    BY <1>1, FlakeType DEF IInv, Positions
  <2>2. routine[n] # "unborn" /\ n \notin Live
    BY <1>1, <2>1 DEF IInv, RoutineInv
  <2> QED
    BY <1>1, <2>2 DEF IInv, TypeOK, Live, Stored, Handed
<1>3. \A kind : Kept(kind) = Given(kind)
  BY <1>2, ParserAssumption DEF Kept, Given
<1> QED
  BY <1>2, <1>3

\* The hand-over from the goroutines to the collector, and from the collector
\* to the caller, loses nothing: what is in no map is in the envelope, or is
\* a transaction with a proof.
THEOREM Losslessness == Spec => []NothingLost
<1>1. IInv => NothingLost
  <2> SUFFICES ASSUME IInv, collector = "exited"
               PROVE  /\ proofs = Given("proof") /\ mapiCallbacks = Given("mapi")
                      /\ Given("tx") \subseteq txs \cup Placed \cup proofs
                      /\ txs \subseteq Given("tx")
    BY DEF NothingLost
  <2>1. main \in Assembly
    BY DEF IInv, CollectorInv
  <2> QED
    BY <2>1, AllStored DEF IInv, MapsInv
<1> QED
  BY <1>1, Invariance, PTL

\* No stream with a malformed transaction or proof yields an envelope.
THEOREM MalformedIsNotReturned == Spec => []MalformedNeverReturns
<1>1. IInv => MalformedNeverReturns
  <2> SUFFICES ASSUME IInv, main \in Assembly, NEW n \in Positions, Flake(n) = Bad
               PROVE  Kind(n) = "mapi"
    BY DEF MalformedNeverReturns
  <2>1. Stored(n)
    BY AllStored, ParserAssumption DEF IInv, CollectorInv
  <2>2. Kind(n) # "tx" /\ Kind(n) # "proof"
    BY <2>1 DEF IInv, MalformedInv, Stored, Handed
  <2> QED
    BY <2>2, KindType
<1> QED
  BY <1>1, Invariance, PTL

-----------------------------------------------------------------------------
(* The envelope *)

Above(p) == SubSeq(p, 1, Len(p) - 1)
Tip == envelope[Root]

\* Before the assembly there is the tip alone.
TipInv ==
    /\ Root \in DOMAIN envelope
    /\ main \notin Assembly => /\ DOMAIN envelope = {Root}
                               /\ ~ Tip.mapi /\ ~ Tip.proof
    /\ \A p \in DOMAIN envelope :
          /\ envelope[p].txid \in Txs => envelope[p].parents \subseteq Inputs[envelope[p].txid]
          /\ envelope[p].txid = None => envelope[p].parents = {}

\* What is searched for is in the map, in no pass to come, and not the tip
\* once the search has left the tip.
PassInv ==
    /\ main \in Assembly => pass \subseteq txs
    /\ main = "search" => /\ search.tx \in txs \ pass
                          /\ search.at # Root => search.tx # Tip.txid
    /\ main = "done" => txs = {}

\* A node other than the tip hangs where its transaction is spent, has what
\* the stream gave for it, and its transaction is not in the map any more.
NodesInv ==
    \A p \in DOMAIN envelope \ {Root} :
        /\ Above(p) \in DOMAIN envelope
        /\ envelope[p].txid \in Inputs[envelope[Above(p)].txid]
        /\ envelope[p].txid \notin txs \cup proofs \cup {Tip.txid}
        /\ ~ envelope[p].proof
        /\ envelope[p].mapi = (envelope[p].txid \in mapiCallbacks)

\* No transaction has two nodes.
UniqueInv ==
    \A p, r \in DOMAIN envelope : envelope[p].txid = envelope[r].txid => p = r

\* The tip is given its proof and callback when it leaves the map.
AnchorInv ==
    main \in Assembly =>
        /\ Tip.txid \in txs => ~ Tip.mapi /\ ~ Tip.proof
        /\ Tip.txid \in Given("tx") \ txs =>
              /\ Tip.mapi = (Tip.txid \in mapiCallbacks)
              /\ Tip.proof = (Tip.txid \in proofs)

TreeInv == TipInv /\ PassInv /\ NodesInv /\ UniqueInv /\ AnchorInv

\* The steps of the goroutines come before the assembly.
LEMMA EarlyStep ==
    ASSUME IInv, TreeInv, Start \/ Spawn \/ Wait \/ Store \/ Routines
    PROVE  TreeInv'
<1>1. main \notin Assembly /\ main' \notin Assembly
  <2>1. CASE Start \/ Spawn \/ Wait
    BY <2>1 DEF Start, Spawn, Wait, Assembly
  <2>2. CASE Store
    BY <2>2 DEF Store, IInv, CollectorInv, Assembly
  <2>3. CASE Routines
    <3>1. PICK n \in Positions : Parse(n) \/ Send(n) \/ Done(n)
      BY <2>3 DEF Routines
    <3>2. n \in Live
      BY <3>1 DEF Parse, Send, Done, Live
    <3>3. main \notin Assembly
      BY <3>2 DEF IInv, RoutineInv
    <3>4. main' = main \/ main' = "panic"
      BY <3>1 DEF Parse, Send, Done
    <3> QED
      BY <3>3, <3>4 DEF Assembly
  <2> QED
    BY <2>1, <2>2, <2>3
<1>2. /\ DOMAIN envelope = {Root} /\ Tip \in NodeType /\ ~ Tip.mapi /\ ~ Tip.proof
      /\ Tip.txid \in Txs => Tip.parents \subseteq Inputs[Tip.txid]
      /\ Tip.txid = None => Tip.parents = {}
  BY <1>1 DEF TreeInv, TipInv, IInv, EnvelopeInv, Tip
<1>3. TipInv'
  <2>1. CASE UNCHANGED envelope
    BY <1>1, <1>2, <2>1 DEF TipInv, Tip, Root
  <2>2. CASE Parse(0) /\ envelope' # envelope
    <3>1. /\ Flake(0) # Bad /\ routine[0] = "parse"
          /\ envelope' = [envelope EXCEPT ![Root].txid = Flake(0),
                                          ![Root].parents = Inputs[Flake(0)]]
      BY <2>2, KindType DEF Parse
    <3>2. Flake(0) \in Txs
      BY <3>1, FlakeType DEF IInv, RoutineInv
    <3>3. /\ DOMAIN envelope' = {Root}
          /\ envelope'[Root] = [Tip EXCEPT !.txid = Flake(0),
                                           !.parents = Inputs[Flake(0)]]
      BY <1>2, <3>1 DEF Tip
    <3>4. /\ envelope'[Root].txid = Flake(0)
          /\ envelope'[Root].parents = Inputs[Flake(0)]
          /\ envelope'[Root].mapi = Tip.mapi /\ envelope'[Root].proof = Tip.proof
      BY <1>2, <3>3 DEF NodeType
    <3>5. ~ Tip'.mapi /\ ~ Tip'.proof
      BY <1>2, <3>4 DEF Tip
    <3> QED
      BY <3>2, <3>3, <3>4, <3>5, ParserAssumption DEF TipInv, Tip, Root
  <2>3. UNCHANGED envelope \/ Parse(0)
    BY DEF Start, Spawn, Wait, Store, Routines, Parse, Send, Done, assembly
  <2> QED
    BY <2>1, <2>2, <2>3
<1> QED
  BY <1>1, <1>3 DEF TreeInv, TipInv, PassInv, NodesInv, UniqueInv, AnchorInv, Tip, Root, Assembly

\* When the assembly starts the map has every transaction given.
LEMMA SignalTree ==
    ASSUME IInv, TreeInv, Signal
    PROVE  TreeInv'
<1>1. /\ main = "signal" /\ collector = "select" /\ main' = "assemble" /\ pass' = txs
      /\ UNCHANGED <<flakes, txs, proofs, mapiCallbacks, envelope, search>>
  BY DEF Signal, maps
<1>2. Given("tx") \subseteq txs
  BY <1>1, AllStored DEF IInv, MapsInv, Assembly
<1>3. Given("tx")' = Given("tx")
  BY <1>1, SameFlakes DEF Given
<1>4. DOMAIN envelope = {Root} /\ ~ Tip.mapi /\ ~ Tip.proof
  BY <1>1 DEF TreeInv, TipInv, Assembly
<1>5. TipInv' /\ PassInv'
  BY <1>1 DEF TreeInv, TipInv, PassInv, Assembly
<1>6. NodesInv' /\ UniqueInv'
  BY <1>1, <1>4 DEF NodesInv, UniqueInv, Tip, Root
<1>7. AnchorInv'
  BY <1>1, <1>2, <1>3, <1>4 DEF AnchorInv, Tip, Root
<1> QED
  BY <1>5, <1>6, <1>7 DEF TreeInv

\* The passes and the way down change what is searched for alone.
LEMMA SearchTree ==
    ASSUME IInv, TreeInv,
           Try \/ NextPass \/ (\E u \in Txs : SearchDeeper(u)) \/ SearchFails
    PROVE  TreeInv'
<1>1. /\ main \in Assembly /\ main' \in Assembly
      /\ UNCHANGED <<flakes, txs, proofs, mapiCallbacks, envelope>>
  BY DEF Try, NextPass, SearchDeeper, SearchFails, Assembly, fetching, maps, assembly
<1>2. Given("tx")' = Given("tx")
  BY <1>1, SameFlakes DEF Given
<1>3. PassInv'
  <2>1. CASE Try
    BY <2>1 DEF Try, TreeInv, PassInv, Assembly, maps, Tip, Root
  <2>2. CASE NextPass
    BY <2>2 DEF NextPass, TreeInv, PassInv, Assembly, maps, Tip, Root
  <2>3. CASE \E u \in Txs : SearchDeeper(u)
    <3>1. PICK u \in Txs : SearchDeeper(u)
      BY <2>3
    <3>2. /\ main = "search" /\ main' = "search" /\ pass' = pass
          /\ search' = [search EXCEPT !.at = Append(search.at, u)]
          /\ search.tx # Here.txid
      BY <3>1 DEF SearchDeeper
    <3>3. search'.tx = search.tx
      BY <3>2 DEF IInv, TypeOK
    <3>4. search.tx # Tip.txid
      BY <3>2 DEF TreeInv, PassInv, TipInv, Here, Node, Tip
    <3> QED
      BY <1>1, <3>2, <3>3, <3>4 DEF TreeInv, PassInv, Assembly, Tip, Root
  <2>4. CASE SearchFails
    BY <2>4 DEF SearchFails, TreeInv, PassInv, Assembly, maps, assembly, Tip, Root
  <2> QED
    BY <2>1, <2>2, <2>3, <2>4
<1>4. TipInv'
  BY <1>1 DEF TreeInv, TipInv
<1>5. NodesInv' /\ UniqueInv'
  BY <1>1 DEF TreeInv, NodesInv, UniqueInv, Above, Tip, Root
<1>6. AnchorInv'
  BY <1>1, <1>2 DEF TreeInv, AnchorInv, Tip, Root
<1> QED
  BY <1>3, <1>4, <1>5, <1>6 DEF TreeInv


\* A node about a transaction still in the map is the tip's.
LEMMA StillInMap ==
    ASSUME TreeInv, NEW p \in DOMAIN envelope, envelope[p].txid \in txs
    PROVE  p = Root
BY DEF TreeInv, NodesInv

\* A search that ends at the transaction's own node ends at the tip.
LEMMA HitTree ==
    ASSUME IInv, TreeInv, SearchHit
    PROVE  TreeInv'
<1>1. /\ main = "search" /\ main' = "assemble" /\ txs' = txs \ {search.tx}
      /\ search.tx \in txs \ pass /\ search.tx \in Txs
      /\ UNCHANGED <<flakes, proofs, mapiCallbacks, pass, search>>
  BY DEF SearchHit, Remaining, fetching, IInv, TypeOK, TreeInv, PassInv
<1>2. Given("tx")' = Given("tx")
  BY <1>1, SameFlakes DEF Given
<1>3. search.tx # None
  BY <1>1, ParserAssumption
<1>4. search.at = Root /\ Root \in DOMAIN envelope /\ search.tx = Tip.txid
  <2>1. search.at \in DOMAIN envelope /\ search.tx = envelope[search.at].txid
    BY <1>3 DEF SearchHit, Here, Node, Empty
  <2>2. search.at = Root
    BY <1>1, <2>1, StillInMap
  <2> QED
    BY <2>1, <2>2 DEF Tip
<1>5. /\ ~ Tip.mapi /\ ~ Tip.proof /\ Tip \in NodeType
  BY <1>1, <1>4 DEF TreeInv, AnchorInv, Assembly, IInv, EnvelopeInv, Tip
<1>6. /\ DOMAIN envelope' = DOMAIN envelope
      /\ \A p \in DOMAIN envelope \ {Root} : envelope'[p] = envelope[p]
  BY <1>4 DEF SearchHit
<1>7. /\ envelope'[Root].txid = Tip.txid
      /\ envelope'[Root].parents = Tip.parents
      /\ envelope'[Root].mapi = (search.tx \in mapiCallbacks)
      /\ envelope'[Root].proof = (search.tx \in proofs)
  <2> DEFINE x == Tip.mapi \/ search.tx \in mapiCallbacks
             y == Tip.proof \/ search.tx \in proofs
  <2>1. envelope'[Root] = [Tip EXCEPT !.mapi = x, !.proof = y]
    BY <1>4 DEF SearchHit, Tip
  <2>2. x = (search.tx \in mapiCallbacks) /\ y = (search.tx \in proofs)
    BY <1>5
  <2> HIDE DEF x, y
  <2>3. /\ envelope'[Root].txid = Tip.txid /\ envelope'[Root].parents = Tip.parents
        /\ envelope'[Root].mapi = x /\ envelope'[Root].proof = y
    BY <1>5, <2>1 DEF NodeType
  <2> QED
    BY <2>2, <2>3
<1>8. TipInv'
  BY <1>1, <1>4, <1>6, <1>7 DEF TreeInv, TipInv, Tip, Root, Assembly
<1>9. PassInv'
  BY <1>1 DEF TreeInv, PassInv, Assembly
<1>10. NodesInv'
  BY <1>1, <1>4, <1>6, <1>7 DEF TreeInv, NodesInv, Above, Tip, Root
<1>11. UniqueInv'
  BY <1>4, <1>6, <1>7 DEF TreeInv, UniqueInv, Tip, Root
<1>12. AnchorInv'
  BY <1>1, <1>4, <1>7 DEF AnchorInv, Tip, Root
<1> QED
  BY <1>8, <1>9, <1>10, <1>11, <1>12 DEF TreeInv

\* A search that ends at a node that spends from the transaction either
\* leaves the envelope alone or hangs the transaction's node under that one.
LEMMA PlaceTree ==
    ASSUME IInv, TreeInv, SearchPlace
    PROVE  TreeInv'
<1>1. /\ main = "search" /\ main' = "assemble" /\ txs' = txs \ {search.tx}
      /\ search.tx \in txs \ pass /\ search.tx \in Txs
      /\ UNCHANGED <<flakes, proofs, mapiCallbacks, pass, search>>
  BY DEF SearchPlace, Remaining, fetching, IInv, TypeOK, TreeInv, PassInv
<1>2. Given("tx")' = Given("tx")
  BY <1>1, SameFlakes DEF Given
<1>3. search.tx # Tip.txid
  BY <1>1 DEF SearchPlace, TreeInv, PassInv, TipInv, Here, Node, Tip
<1>4. PassInv'
  BY <1>1 DEF TreeInv, PassInv, Assembly
<1>5. CASE search.tx \in proofs
  <2>1. envelope' = envelope
    BY <1>5 DEF SearchPlace
  <2>2. TipInv'
    BY <1>1, <2>1 DEF TreeInv, TipInv, Tip, Root, Assembly
  <2>3. NodesInv' /\ UniqueInv'
    BY <1>1, <2>1 DEF TreeInv, NodesInv, UniqueInv, Above, Tip, Root
  <2>4. AnchorInv'
    BY <1>1, <1>2, <1>3, <2>1 DEF TreeInv, AnchorInv, Tip, Root, Assembly
  <2> QED
    BY <1>4, <2>2, <2>3, <2>4 DEF TreeInv
<1>6. CASE search.tx \notin proofs
  <2> DEFINE q == search.at
             p == Append(q, search.tx)
  <2>1. q \in DOMAIN envelope /\ search.tx \in envelope[q].parents
    BY DEF SearchPlace, Here, Node, Empty
  <2>2. search.tx \in Inputs[envelope[q].txid]
    BY <2>1 DEF TreeInv, TipInv, IInv, EnvelopeInv, NodeType
  <2>3. p # Root /\ p[Len(p)] = search.tx /\ Above(p) = q
    <3>1. q \in Seq(Txs)
      BY DEF IInv, TypeOK
    <3>2. p \in Seq(Txs) /\ p # Root /\ Len(p) = Len(q) + 1 /\ p[Len(p)] = search.tx
      BY <1>1, <3>1, AppendProperties DEF Root
    <3>3. Above(p) = q
      BY <1>1, <3>1, <3>2 DEF Above
    <3> QED
      BY <3>2, <3>3
  <2> HIDE DEF p
  <2>4. \A r \in DOMAIN envelope : envelope[r].txid # search.tx
    BY <1>1, <1>3, StillInMap DEF Tip
  <2>5. p \notin DOMAIN envelope
    BY <2>3, <2>4 DEF IInv, EnvelopeInv
  <2>6. /\ DOMAIN envelope' = DOMAIN envelope \cup {p}
        /\ \A r \in DOMAIN envelope : envelope'[r] = envelope[r]
        /\ envelope'[p] = nextEnvelope(search.tx)
    BY <1>6, <2>5 DEF SearchPlace, p
  <2>7. /\ envelope'[p].txid = search.tx /\ envelope'[p].parents = Inputs[search.tx]
        /\ ~ envelope'[p].proof
        /\ envelope'[p].mapi = (search.tx \in mapiCallbacks)
    BY <2>6 DEF nextEnvelope
  <2>8. Root \in DOMAIN envelope /\ Tip' = Tip
    BY <2>6 DEF TreeInv, TipInv, Tip, Root
  <2> HIDE DEF q
  <2>9. TipInv'
    <3>1. search.tx # None
      BY <1>1, ParserAssumption
    <3> QED
      BY <1>1, <2>6, <2>7, <2>8, <3>1 DEF TreeInv, TipInv, Root, Assembly
  <2>10. NodesInv'
    <3> SUFFICES ASSUME NEW r \in DOMAIN envelope \cup {p}, r # Root
                 PROVE  /\ Above(r) \in DOMAIN envelope'
                        /\ envelope'[r].txid \in Inputs[envelope'[Above(r)].txid]
                        /\ envelope'[r].txid \notin txs' \cup proofs \cup {Tip.txid}
                        /\ ~ envelope'[r].proof
                        /\ envelope'[r].mapi = (envelope'[r].txid \in mapiCallbacks)
      BY <1>1, <2>6, <2>8 DEF NodesInv, Above, Root
    <3>1. CASE r = p
      BY <1>1, <1>3, <1>6, <2>1, <2>2, <2>3, <2>6, <2>7, <3>1
    <3>2. CASE r \in DOMAIN envelope
      BY <1>1, <2>6, <3>2 DEF TreeInv, NodesInv
    <3> QED
      BY <3>1, <3>2
  <2>11. UniqueInv'
    BY <2>4, <2>6, <2>7 DEF TreeInv, UniqueInv
  <2>12. AnchorInv'
    BY <1>1, <1>2, <1>3, <2>8 DEF TreeInv, AnchorInv, Assembly
  <2> QED
    BY <1>4, <2>9, <2>10, <2>11, <2>12 DEF TreeInv
<1> QED
  BY <1>5, <1>6

\* The envelope is as the invariant says in every order of the passes.
LEMMA TreeInvariance == Spec => []TreeInv
<1>1. Init => TreeInv
  <2> SUFFICES ASSUME Init PROVE TreeInv
    OBVIOUS
  <2>1. /\ main = "start" /\ DOMAIN envelope = {Root}
        /\ ~ Tip.mapi /\ ~ Tip.proof /\ Tip.txid = None /\ Tip.parents = {}
    BY DEF Init, Tip, Empty
  <2>2. None \notin Txs
    BY ParserAssumption
  <2> QED
    BY <2>1, <2>2 DEF TreeInv, TipInv, PassInv, NodesInv, UniqueInv, AnchorInv,
                      Tip, Assembly
<1>2. IInv /\ TreeInv /\ [Next]_vars => TreeInv'
  <2> SUFFICES ASSUME IInv, TreeInv, [Next]_vars PROVE TreeInv'
    OBVIOUS
  <2>1. CASE Start \/ Spawn \/ Wait \/ Store \/ Routines
    BY <2>1, EarlyStep
  <2>2. CASE Signal
    BY <2>2, SignalTree
  <2>3. CASE Try \/ NextPass \/ (\E u \in Txs : SearchDeeper(u)) \/ SearchFails
    BY <2>3, SearchTree
  <2>4. CASE SearchHit
    BY <2>4, HitTree
  <2>5. CASE SearchPlace
    BY <2>5, PlaceTree
  <2>6. CASE UNCHANGED vars
    <3>1. UNCHANGED <<flakes, main, txs, proofs, mapiCallbacks, envelope, pass, search>>
      BY <2>6 DEF vars
    <3>2. Given("tx")' = Given("tx")
      BY <3>1, SameFlakes DEF Given
    <3> QED
      BY <3>1, <3>2 DEF TreeInv, TipInv, PassInv, NodesInv, UniqueInv, AnchorInv,
                        Above, Tip, Root
  <2> QED
    BY <2>1, <2>2, <2>3, <2>4, <2>5, <2>6 DEF Next, Main, Stopped
<1> QED
  BY <1>1, <1>2, Invariance, PTL DEF Spec

\* In whatever order a pass takes the transactions, and however often one is
\* tried in vain, every node is stored once, where its transaction is spent.
THEOREM TreeIsWellFormed == Spec => []EnvelopeIsTree
<1>1. IInv /\ TreeInv => EnvelopeIsTree
  BY DEF IInv, TreeInv, EnvelopeInv, NodesInv, UniqueInv, EnvelopeIsTree, Above
<1> QED
  BY <1>1, Invariance, TreeInvariance, PTL

\* What the parser returns has every transaction without a proof in it, and
\* the callbacks and proof that the stream gives for each one it has.
THEOREM NothingIsLeftOut == Spec => []ReturnsWhatWasGiven
<1>1. IInv /\ TreeInv => ReturnsWhatWasGiven
  <2> SUFFICES ASSUME IInv, TreeInv, main = "done"
               PROVE  /\ Given("tx") \ Given("proof") \subseteq Placed
                      /\ \A p \in DOMAIN envelope :
                            LET e == envelope[p] IN
                            e.txid \in Given("tx") =>
                               /\ e.mapi  = (e.txid \in Given("mapi"))
                               /\ e.proof = (e.txid \in Given("proof"))
    BY DEF ReturnsWhatWasGiven
  <2>1. /\ main \in Assembly /\ txs = {}
    BY DEF TreeInv, PassInv, Assembly
  <2>2. /\ proofs = Given("proof") /\ mapiCallbacks = Given("mapi")
        /\ Given("tx") \subseteq txs \cup Placed \cup proofs
    BY <2>1, AllStored DEF IInv, MapsInv, CollectorInv
  <2>3. ASSUME NEW p \in DOMAIN envelope, envelope[p].txid \in Given("tx")
        PROVE  /\ envelope[p].mapi  = (envelope[p].txid \in Given("mapi"))
               /\ envelope[p].proof = (envelope[p].txid \in Given("proof"))
    <3>1. CASE p = Root
      BY <2>1, <2>2, <2>3, <3>1 DEF TreeInv, AnchorInv, Tip
    <3>2. CASE p # Root
      <4>1. ~ envelope[p].proof /\ envelope[p].proof \in BOOLEAN
        BY <3>2 DEF TreeInv, NodesInv, IInv, EnvelopeInv, NodeType
      <4>2. envelope[p].mapi = (envelope[p].txid \in mapiCallbacks)
        BY <3>2 DEF TreeInv, NodesInv
      <4>3. envelope[p].txid \notin proofs
        BY <3>2 DEF TreeInv, NodesInv
      <4> QED
        BY <2>2, <4>1, <4>2, <4>3
    <3> QED
      BY <3>1, <3>2
  <2> QED
    BY <2>1, <2>2, <2>3
<1> QED
  BY <1>1, Invariance, TreeInvariance, PTL

=============================================================================
