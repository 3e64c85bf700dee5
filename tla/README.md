# go-bc: a verification project in TLA+

go-bc is a Go library of Bitcoin building blocks and, in `spv/`, of simple
payment verification: Merkle trees, the paths and proofs taken from them, and
the verification of a payment together with its ancestry. This directory holds
TLA+ modules translated from that code, configurations that check them with TLC
on small instances, and proofs that TLAPS checks for every value of the
constants. `PROJECT.json` links every definition to the lines it models.

## The system

| Part | Source | State it keeps | Operations | What makes it correct |
| --- | --- | --- | --- | --- |
| Merkle tree | `merkleroot.go`, `merkletreeparent.go` | the linear array, while it is built | `BuildMerkleTreeStore`, `BuildMerkleRoot`, the `chainhash` variant | the last cell is the Merkle root; a malformed id is an error |
| Merkle path | `merklepath.go`, `merklebranches.go` | none | `GetTxMerklePath`, `CalculateRoot`, `MerkleRootFromBranches` | a path leads back to the root of its tree |
| BUMP | `bump.go` | levels of leaves | make, encode, decode, `CalculateRootGivenTxid` | it leads to the block's root from its transaction and its neighbour, and from no other id to any root |
| Merkle proof verifier | `spv/verifymerkleproof.go` | none; asks the header chain | `VerifyMerkleProof`, `VerifyMerkleProofJSON` | an id it accepts is in the block's tree, at the level and index the proof says; honest proofs are accepted |
| Payment verifier | `spv/verifypayment.go`, `spv/verifier.go` | options and header chain, shared by all calls | `NewPaymentVerifier`, options, `VerifyPayment` | an accepted payment is anchored, and pays its fees, as its caller asked |
| Ancestry parser | `spv/ancestry_binary.go` | a map of ancestors | `parseAncestry` | proofs stay with their transactions |
| Envelope formats | `spv/envelope.go` | maps, channels, a wait group | SpecialK and CrunchyNut serialisers and parsers | no race, nothing lost, it ends; what is written is read back, and what is broken is not |
| Ancestry creator | `spv/create_ancestry.go`, `spv/creator.go` | a tree of ancestors, while it is made; reads two stores | `CreateTxAncestry` | every path ends in a proof; what it makes, the verifier accepts |
| JSON codecs | `spv/ancestry_json.go`, `spv/ancestry_tsc_json.go`, `merkleproof.go`, `mapicallback.go` | none | `Bytes`, `NewAncestryJSONFromBytes` | what is encoded can be parsed and means the same |
| Headers and blocks | `blockheader.go`, `block.go`, `blockheaderchain.go` | none | field codecs, `Valid` | a block is read back from its bytes |
| Difficulty | `difficulty.go` | none | compact targets, difficulty | no block below the work its target asks for |
| Coinbase | `coinbase.go` | none | `GetCoinbaseParts`, `BuildCoinbase` | lengths and counts are those of what follows, within what the network allows |
| Bytes | `bytemanipulation.go`, `endian.go`, `humanhash.go` | none | conversions | |

How they interact: a payer's creator reads a transaction store and a proof store
(interfaces the application implements) and makes an `AncestryJSON`; its `Bytes`
travel, as they are or turned into the JSON of the standard and back, to a payee
whose payment verifier parses them and calls the Merkle proof verifier for every
proof; that one asks the header chain (an interface too) for a block's Merkle
root and folds the proof into it with `MerkleTreeParentStr`, the hash that built
the tree and that paths and BUMPs fold with. The SpecialK parser calls the same
binary proof parser from goroutines of its own. A miner makes a coinbase, folds
it into a Merkle root along branches, checks each nonce against a target, and
sends the block as bytes.

The hard parts are the concurrency of the SpecialK parser (one goroutine for
each flake, a collector, unbuffered channels, a wait group, then loops over
maps in random order), the verifier shared by concurrent calls with options of
their own, stores that change between two reads of one creation, the order of
chunks in an ancestry and of nodes in a map, conversions that lose something one
step before it is needed, and the shapes of trees whose size is no power of two.
`PROJECT.json` lists the hazards line by line with the properties aimed at them.

## The modules

**MerkleHash** is the hash algebra and the array's shape. A hash is a free
constructor (`<<l, r>>` is the parent of `l` and `r`), which is the assumption
that SHA-256 has no collisions. The powers of two are a constant with
assumptions (closed under halving; one between n and 2n for every size), which
is all the proofs need of them.

**BlockTree** is the Merkle tree of a list, apart from any array or loop:
`Levels` goes from the list of ids to the level of one node, `MerkleRoot` is that
node, `Width` the size of a level and `Above` the way of a leaf up through them.
It is the reference that the code's arrays, paths, proofs and BUMPs are compared
with.

**MerkleTree** is the array of `BuildMerkleTreeStore` and the paths taken from
it. `BuildStep` is a pass of the loop, `getPathElements` one recursive call
(`calls` is its stack of arguments; the slice `hashes[start:]` is kept as
`start`), `Fold` a pass of the loop `CalculateRoot` and
`MerkleRootFromBranches` share, which differ in what they do at the end.

**Bump** is a BUMP from its making (`New`, `AddLevel`, `AddTxid`) over
`HandOver` (bytes, which sort the levels again, JSON, or the value itself) to
`CalculateRootGivenTxid` (`Find`, `FoldLevel`, `Return`). Its `merkleTree` is
the array of `BuildMerkleTreeStoreChainHash`, as a function. `Received` is the
sorted rearrangement of a level, whichever way it is sorted.

**Inclusion** is what a Merkle proof verifier promises, without hashes, nodes or
targets: a claim that an id is a node of a block's tree, so many levels below the
root and at an index of that level, is made once, and the answer is true to the
block; a false claim is never called valid, and a true one with the proof that
belongs to it (`Proven`) always is. The promise is about nodes and not about
transactions, because the code takes any 64 hexadecimal characters for an id: the
hash of an inner node with the upper part of a path is accepted, and so is the
root itself with no path at all. That an id is a transaction's, the caller has
to know; the payment verifier does, since it compares the id with that of a
transaction it has parsed. About a root that is no block's (not `Anchored`)
nothing is promised, and of bytes that end early (not `Whole`) a panic is an
answer too. `Safety` is its part without fairness.

**MerkleProofVerifier** is both entry points of the proof verifier. A proof is
a record of the fields it has in either form, its id being any hash (`txid`); the
binary form has a parser that bounds the index, in a word of `WordBits` bits, and
the JSON form has none. Bytes have as many of the parser's reads as `reads` says:
`Parse` is the parser on whole ones, `ParseShort` on those that end early, where
the next read panics or, as a slice within its array's capacity, holds what
happens to be there. `VerifyNode` is a pass of the loop in `verifyProof`. The
module implements Inclusion under a refinement mapping (`Promise`): the request
is the claim, and what was returned (`Verdict`) is the answer, "none" as long as
nothing was. Every step but the last is a stutter. `TxsOf` are the lists of
transactions behind the headers, and a header's root is the `MerkleRoot` of its
list.

**PaymentVerifier** is one verifier and any number of goroutines (`Callers`)
that call `VerifyPayment`; a member of `Workloads` says who calls with what.
`opts` is shared and `o` is a call's copy; an ancestry is a sequence of chunks,
parsed one at a time (`parseChunk`); the last loop takes the ancestors in any
order (`VerifyAncestor`). A name of `Txs` is some bytes that parse as a
transaction, and the hash of these bytes, under which they are filed and which
an input can name; `TxID` is the name of the same transaction as the library
writes it, whose hash is its id. The two differ for the extended format and for
lengths written longer than they have to be, and it is with `TxID` that a proof
is compared (`Mismatch`). A payment that is `short` has a last chunk that states
more bytes than there are: the slice either panics or, where its array has room
to spare, is a chunk like any other, whatever it holds. A callback that ends
beyond its chunk is an `Overrun`: it panics, fails to parse, or is kept. A
transaction's inputs and outputs are constants, since its bytes commit to them;
a Merkle proof is represented by what `VerifyMerkleProof` answers, the subject
of MerkleProofVerifier. Scripts always verify, as in the code. Of the fee
arithmetic of go-bt (vendored) what counts is kept: both sums are those of
words, modulo `Word`, and a quote may be missing, lack a type of fee (an error)
or be one for zero bytes (a division by zero).

**AncestryCreator** is `CreateTxAncestry`: `stack` holds the calls of the
recursion, `Tx` and `MerkleProof` are the reads of the two stores. The stores
belong to the application, and a read fails, or finds a proof at one time and
not at another, as the model's choice.

**PaymentFlow** composes AncestryCreator and PaymentVerifier: it extends the
latter and takes the former with `INSTANCE`, sharing its variables, over what lies
between them: the encoder (`serialiseInputs`, a pass of its loop over a map, with
`nodes` the maps its calls range over), and `Relay`, `NewAncestryJSONFromBytes`
followed by `Bytes`. `FlowInit` and `FlowNext` are what it starts with and does;
of the verifier, one call. `Chains` counts the chains of spends that lead back
from a place in the inputs of a transaction, which is what the reads of the
creator are held against.
The conversion of a proof is modelled by what it does: it loses what kind of
target the proof has (`Reencoded`).

**SpecialKParser** is `NewSpecialKEnvelopeFromBytes`: the calling goroutine
(`Start` to `Signal`), the goroutine of each flake (`Parse`, `Send`, `Done`),
the collector (`Store`), and the assembly of the envelope (`Try` to
`SearchFails`), where `SearchDeeper` chooses the parent Go's random map order
yields. A send on an unbuffered channel is one step of sender and collector.
Flakes are already cut; a flake that does not parse is `Bad`.

**Envelope** is the two serialisers of an envelope (`Serialise`, a pass of their
loop; at the first node with parents to go down to, the loop ends with what the
call for them returns) and the CrunchyNut parser, whose recursion is `calls`. A
proof one of whose fields is not hexadecimal is `Malformed`: at it every call of
the serialiser returns an error (`err`), which the outermost one prints and does
not return, so that the bytes end where it came. (The other error that they
return, of `mapiResponse.Bytes`, cannot occur: it encodes strings and a number
as JSON.) The parser reads what CrunchyNut has written, or bytes `Received` from
elsewhere: of another `version`, with flakes of a type it does not know
(`Other`), that do not parse (`Garbled`), or that are cut short (`Short`); the
last two end in a panic (`Panics`). Callbacks are counted. Nodes the parser has
made are numbered, because Go holds pointers to them from two places at once.
`Envelopes` are the envelopes and the nodes of their parents, so a node is one
whose parents are of the set too. Of them `EnvelopeAssumption` says that a
transaction without a proof comes with one of its parents at least. `Chains` are
those in which every transaction without a proof spends from one other and has
no callbacks, written down as the sequence of their nodes. They have callbacks
at their end only: after a callback of a transaction without a proof, the parser
reads the next transaction into the same node, which it overwrites, and such an
envelope is not read back as it was.

**Mining** extends BlockTree and follows a block from a coinbase to its bytes
and back: `GetCoinbaseParts`, `BuildCoinbase`, `BuildMerkleRootFromCoinbase`,
`Valid` with the expansion of the compact target, `Bytes` and
`NewBlockFromBytes`. Fields and scripts are lengths; what is read where a length
is wrong is a choice between the outcomes of misreading. A byte of a target has
`ByteBits` bits, so that the arithmetic stays within TLC's integers at every
exponent. The branches the caller hands over are those of the coinbase
(`MiningAssumption`): the right neighbour of its node at every level of the
block's tree.

**MerkleTreeProofs**, **MerkleInclusionProofs**, **BumpProofs**,
**PaymentProofs** (PaymentVerifier and PaymentFlow), **SpecialKParserProofs**,
**EnvelopeProofs** and **MiningProofs** hold the proofs about the components they
are named for. **BlockTreeProofs** holds the lemmas about BlockTree that the first
three and the last one share, and what those rest on: induction on the numbers
and the existence of functions defined by recursion. Modules with the prefix MC
give the constants their values for TLC; every property is stated in the module
of its component.

Operators marked "Mutant" in a comment are plausible mistakes in the definition
that follows them; nothing uses them. Each is named in `PROJECT.json` with the
property that fails when it takes the definition's place.

## The runs

| Run | Instance | What it shows |
| --- | --- | --- |
| `merkle_tree` | blocks of 1 to 10, a malformed id at the first two and last positions, all paths | the array ends in the Merkle root of the list (`RootIsMerkleRoot`, against BlockTree, which has levels and no padding); paths lead back to it; malformed ids are reported |
| `bump` | blocks of 1 to 9, all positions, all ids asked | a BUMP leads from its transaction and its neighbour to the root of BlockTree and from no other id to any; it panics only if it is that of a last transaction without a neighbour; that of a block of one answers with the id it is asked for |
| `merkle_proof` | blocks of 1, 2, 3 and 5; for up to 3, any hash of the tree as the id, any as nodes, at any index, and paths one longer and shorter; for 5, honest proofs with a node and the index changed, their upper parts for every node of the tree, and paths up to two nodes longer, as many as the word of `WordBits` = 4 bits has bits and more; binary proofs that end after every read; targets of every kind, among them the root of a list that is no block's | the verifier implements Inclusion: only nodes of the tree are accepted, at their level and index, all honest proofs are, every call is answered or panics on bytes that end early; `IsLastInTree` is right of the level the path begins at, and no transaction passes for a node further up |
| `payment` | three ancestors sent in every way, one of them also in the extended format, chunks cut short, eight lists of options for the verifier and ten for the call, among them quotes that cannot be computed, outputs whose sum wraps in `Word` = 32, header chain or nil; and two goroutines that call one verifier with options and payments of their own | accepted payments are anchored, by the hashes of the bytes sent, and pay their fees, in the arithmetic of words, as their own caller asked; honest ones are not refused; calls end |
| `payment_flow` | a payment with three inputs from two parents, a chain of four behind them, proofs of every kind of target, up to `MaxRelays` = 2 conversions on the way | what the creator makes of stores that fail and change is accepted, unless the fees asked for are not paid or a proof about a root or a header was passed on, and on the evidence the creator found; the stores are read no more than once per chain of spends |
| `special_k` | four transactions in a diamond, nine streams of up to twelve flakes | all interleavings: no race, no loss, the envelope holds what was given, it ends |
| `envelope` | chains of up to four with every kind of target and up to two callbacks; forks of three parents; proofs and raw transactions that are not as they should be, at every place of a fork; bytes received of up to three flakes of nine kinds, eight flakes with any of them at the end, other versions, and bytes that end at once | what is written is a chain of spends, and ends in a proof exactly if the serialiser had no error; CrunchyNut chains are read back; no envelope comes of flakes that do not parse or are cut short; it ends |
| `mining` | a good job varied in one respect at a time; every shape of compact target with `ByteBits` = 3; 1 to `MaxTxs` = 6 transactions | a mined block is read back with the Merkle root of its list; no hash above its target is accepted, and difficulty never overstates work |

Blocks of 1 to 10 transactions reach every pattern of odd levels over up to four
levels (5 and 9 have odd levels at three heights, 6 and 10 an odd level above an
even one), and with them every branch of the loops. Two hashes are compared only
for equality, so one transaction of each name is enough. In `payment` three
ancestors make the smallest case with a chain and a branch: an ancestor two
steps from the payment and reached twice; a leak of options needs two calls, not
more. In `payment_flow` two inputs that spend one parent, with another between
them, are what the creator's skip is about; a second relay meets what the first
one wrote. In `special_k` a diamond is the smallest envelope in which a
transaction has two places to go. In `envelope` a fork with three parents has
siblings left before and after the one the serialiser goes down to, or stops at;
a flake that does not parse has been read behind, before and in between others.
In `merkle_proof` a word of four bits is shifted out by a path of four nodes,
one more than the tree of five transactions is high; in `payment` 32 is less
than the sum of two outputs, and more than what any honest payment spends. Three
bits to a byte leave eight bits of mantissa, a sign, and exponents on both sides
of 3.

Deadlock is checked in `special_k`, where goroutines could block one another;
`Stopped` lets it stand still once the function has returned. The other modules
are calls that end, and their configurations switch the check off. That calls of
PaymentVerifier and of Envelope do end is `Termination`, that those of
MerkleProofVerifier do is the fairness of Inclusion. The others are loops over
something of a given length, of whose end nothing is stated.

### Where code and documentation disagree

Four runs each check what a comment, an error or a test says, and TLC finds it
violated by what the code does:

- `special_k_comment`: ancestors with a proof are deleted from the map of
  transactions and never stored (`envelope.go:434`).
- `nil_chain`: the guard for the header chain looks at the verifier
  (`verifypayment.go:16`).
- `spends_in_bounds`: inputs that spend the same parent collapse to the last
  (`verifypayment.go:65`).
- `relay`: turned into the JSON of the standard and back, a proof about a Merkle
  root or a header is presented as one about a block (`ancestry_tsc_json.go:50`),
  and the ancestry is refused.

Others are in the definitions without a run of their own:

- flags masked with 8 and 16 are compared with 1, so no binary proof is refused
  as composite or of another type (`verifymerkleproof.go:82,86`; `Unsupported`);
- fees are off by default, unlike the comment over the constructor
  (`verifier.go:140`; `Defaults`);
- `flagType` names the target of a proof "blockhash", which
  `VerifyMerkleProofJSON` does not know: it takes "" or "hash"
  (`envelope.go:188`);
- the serialisers return at the first input with parents of its own and leave
  out the nodes the loop has not come to (`envelope.go:272`; `Serialise`);
  `WrittenIsChain` is what is still true of what they write;
- the serialisers print the error of a proof that cannot be written, and return the
  bytes before it with no error (`envelope.go:62`, `SerialiseReturn`), where the
  comment at `envelope.go:44` says that they return "the serialised bytes";
- an ancestor is filed under the hash of the bytes sent (`ancestry_binary.go:70`,
  `parseChunk`), and its proof compared with the id of what was parsed from them
  (`verifypayment.go:85`, `Mismatch`). A payment whose input names the hash of a
  transaction in the extended format, which is no transaction's id, is accepted,
  though `errors.go:18` has `ErrTxIDMismatch` for a key that is not the id;
- the amounts of a payment's outputs are added up in 64 bits
  (`verifypayment.go:49`, `IsFeePaidEnough`), so that a sum that wraps covers any
  quote;
- a BUMP with one leaf answers with the id it is asked for, whether or not it is
  that leaf (`bump.go:181`, `RootOrNotFound`), where every other says that it does
  not contain it;
- an id is whatever has 64 characters (`verifymerkleproof.go:223`;
  `TxidFromTxOrID`), so a valid proof need not be about a transaction;
- the order of the lowest level of a BUMP depends on the other levels
  (`bump.go:267`). Handed over without a pass through bytes, such a BUMP is
  dereferenced at a leaf without a hash. The same dereference, at `bump.go:188`,
  meets an id the BUMP does not contain; the model takes that step to `panic`.

## Fairness

A sequential function keeps running: `WF_vars(Next)` in MerkleProofVerifier and
Envelope; in PaymentVerifier, weak fairness of each caller, since Go schedules
every runnable goroutine. MerkleTree, Bump, PaymentFlow and Mining have none and
state safety only: that loops over a list, a tree or a path come to their end is
what Go's range and for loops do, and nothing makes the search for a nonce end.
(Of the creator's recursion, `ReadsAreBounded` says how far it goes.)
SpecialKParser assumes the same of the
calling goroutine, of the goroutines of the flakes and of the collector. It
also assumes strong fairness of the choice of a parent: Go ranges over a map
from a random start, so a search that stands again and again on a node goes on
to each of its parents at some time. Without it the passes could go down the
same branch for ever. `Termination` is stated there of streams whose
transactions hang together (`Connected`): on others the loop really does not
end, as the list of hazards says.

## The proofs

The code's trees are recursive data, and a proof about them is an induction.
`Induction` says it without a parameter that is a predicate: a set that has 0
and the successor of each of its members has every number. For a recursive
function there is a fact to prove before any other, that a function with the
values its definition states exists. `Iteration` proves it once for the steps
the definitions of BlockTree take (`Step`: doubling, halving and `Up`), from
which their values follow (`TwoToValues`, `AboveValues`, `UpValues`,
`LevelsValues`). `BlockTreeProofs` then proves how wide levels are
(`WidthValues`), that a node is the parent of its two children (`NodeChildren`),
that ways of leaves meet and stay in order (`AboveMonotone`, `AboveInside`,
`AboveHeight`), that no two nodes of a level have the same hash (`NodesDiffer`),
nor an id and an inner node (`IdIsNoParent`), and what the levels of an array
padded to a power of two hold: the nodes of the tree, then nothing
(`PaddedWidths`, `PaddedCell`, `PaddedParent`).

`MerkleTreeProofs` proves, for any set of blocks of 1 to `MaxTxs` transactions,
any set of malformed ids, and from the assumptions on powers of two alone:

- `Invariance`: `Spec => []IInv`,
- `TypeCorrectness`: `TypeOK`, so no access to the array is out of bounds,
- `PathSoundness`: `PathLeadsToRoot`,
- `PathCompleteness`: `PathCoversIndex`,
- `ErrorsAreJustified`: `ErrorIffMalformed`,
- `RootSoundness`: `RootIsMerkleRoot`.

That a path leads to the root is not inductive: when the fold ends, nothing in
`PathLeadsToRoot` says where it stood before. `IInv` ties the stages together.
`TreeInv` says that every cell filled so far is the parent of two cells below
it; `EmptyCellsLast` that empty cells come last within a level, so that a node
without a neighbour is a left one, which `ParentCell` hashes with itself just as
`PathElement` repeats it; `CallsInv` that every call of `getPathElements` stands
on a node of a level; `FoldInv` that before its k-th step the fold holds the
hash, and what is left of the index, on which the k-th call stood. A step of the
fold then moves from a cell to its parent (`LevelUp`, `GetPathElementsIInv`,
`FoldIInv`), and the last call stands below the root. That the last cell is the
Merkle root of the list follows from the same `IInv`, by induction on the level:
the array holds the padded level at each height (`HoldsLevel`, `LevelsAreHeld`),
and the level of one cell is the level of one node (`PaddedHeight`).

`MerkleInclusionProofs` proves, for blocks of any size, and proofs of any nodes,
of any number of them, at any index:

- `Invariance`: `Spec => []IInv`,
- `TypeCorrect`: `TypeOK`,
- `LastIsLast`: `LastMeansLast`, of the level the path begins at,
- `PathsFit`: `IndexFitsPath`, that a transaction's path begins at the leaves included,
- `Refinement`: `Spec => Promise!Safety`, so every step of the verifier is a
  stutter of Inclusion or its answer, and the answer is true of the block's tree.

What the nodes of a forged proof are is unknown, so nothing can be said of the
hashes on the way but this (`Sound`): if the hash folded so far is a node of a
block's tree, then the id is a node of the tree too, as far below it as nodes
were folded. Since hashes are free, the parent of two hashes is a node of the
tree only if the two are its children (`NodesDiffer`), so `Sound` holds after a
step if it did before. The index that is left and `isLastInTree` are tied to
that node and its level in the same way (`LastBelow`). The id of an accepted
proof is therefore a node as many levels below the root as there are nodes; if
it is a transaction's, that level is the leaves, since no id is a parent of two
hashes (`IdIsNoParent`). `OnTheWay` says of an honest proof that the hash is the
node above the leaf, and `Progress` what each stage leaves to the next, among
them that only bytes that end early panic. Two assumptions enter: no block has a
transaction twice, and none has so many that the height of its tree reaches the
width of a word.

`BumpProofs` proves, for blocks of any size, any position in them and any id
asked for:

- `Invariance`: `Spec => []IInv`,
- `TypeCorrect`: `TypeOK`, so the loop that makes the path stays in the tree,
- `RootIsReached`: `RootOrNotFound`, with the two exceptions it names (the panic of
  a last transaction without a neighbour, and the block of one),
- `SortingIsSafe`: `SortedIsSafe`.

The array of `BuildMerkleTreeStoreChainHash` holds padded levels too
(`ArrayValues`, `CellsAreHeld`); `PathInv` says that the BUMP's levels are the
siblings of the nodes on the way, with the transaction's own leaf on either side
of the lowest one, and, after a pass through bytes, on the side its offset
says; `FoldInv` that the fold stands on the way of a transaction the BUMP is good
for, which from the first step on is the same for both (`WaysMeet`).

The first part of `PaymentProofs` is about PaymentVerifier and proves, for any
transactions, payments, ancestries of any length, and any number of callers with
any options:

- `Invariance`: `Spec => []IInv`,
- `TypeCorrect`: `TypeOK`, so the parser stays within the chunks and files no
  proof under a transaction it has not parsed,
- `OptionsAreIsolated`: `OptionsIsolated`,
- `FeesAreCovered`: `FeesCovered`,
- `AncestryIsAnchored`: `AnchoredAncestry`,
- `HonestPaymentsPass`: `HonestIsAccepted`.

What is proved of fees and of the ancestry is what the code does, not what its
documentation promises: `FeesCovered` adds up in words of any width, and
`AnchoredAncestry` follows the hashes of bytes and has proofs about the ids of
the transactions in them. What is lost on the way is listed above, among the differences between code and
documentation.

A verdict says nothing of how it was reached, so `IInv` follows each call by
itself (`CallInv`): the options it goes by are those its caller asked for
(`OptionsInv`), what is in its ancestry was sent, with proofs that were sent
(`AncestryInv`), and the ancestors its last loop has come to have passed
(`ChecksInv`). A step of one call leaves the others' parts alone
(`OthersAreSame`, `SameCallInv`), which is where the copy of the options counts.
`AnchoredAncestry` needs one fact more, that no chain of spends comes back to
its start, because an id is a hash of the ids it spends from: the theorem takes a
ranking of the transactions as its hypothesis, which those of the run `payment`
have too. Without it, transactions that spend from each other would anchor one
another. The set the property asks for is then the ancestors ranked below the
payment.

`HonestPaymentsPass` is the other direction, what the verifier must not refuse,
and rests on two more invariants, each inductive relative to those before it.
`SInv` says that a call goes by what it was sent: while it parses, each
transaction of the map is that of a chunk behind the parser, with a proof that
followed this chunk or, if none did, without one (`ParsedInv`); parsed, the map
is all that was sent and the payment (`CompleteInv`). If the payment is `Honest`,
these proofs are valid and its own, and what has none has all its parents
(`HonestAncestry`), so every check passes that the fees do not fail (`HInv`).

The second part is about PaymentFlow and proves, for any stores, any shape of
ancestry, any options and any number of relays:

- `FlowInvariance`: `FlowSpec => []FlowInv`,
- `FlowTypeCorrect`: `FlowTypeOK`, so no call of the creator leaves the inputs of its
  transaction,
- `CreatedPaymentsPass`: `CreatedIsAccepted`,
- `EvidenceIsKept`: `EvidenceKept`,
- `ReadsAreFew`: `ReadsAreBounded`.

`FlowInv` follows the payment from hand to hand. What the creator has found are
trees whose leaves have proofs from the store, but trees of Go pointers are
recursive data. `IsTree` says it without recursion: a node is the root of a tree
if it is in a set of nodes (`IsClosed`) each of which has a proof from the store,
or has all its parents in the set. Two such sets have a union that is one, which
is all that the steps of the creator need (`ProvenIsTree`, `ParentsMakeTree`);
`FrameInv` says that a call has a tree for each input it has come to, `LinkInv`
that it was made for the parent its caller stands at. The encoder
takes such trees apart: `EncoderInv` says that each chunk written is a proof that
belongs to the transaction before it, or a transaction that is followed by its
proof or has all its parents written or still to be (`Around`). When nothing
is left to write, `Around` is what was written, so the payment is `Honest`
(`WhatArrivesIsHonest`), provided the stores tell the truth (`Truthful`) and no
proof has been misread on the way. A relay keeps the same of the chunks because
what `NewAncestryJSONFromBytes` parses is what belongs together (`ParsedIsOwn`).
From `VerifyPayment` on, `FlowInv` contains `IInv` and what
`HonestPaymentsPass` was proved from (`Arrived`). The module assumes of its
constants that the payment and what is stored have their types, and that what is
stored has inputs (`WellFormed`); the hypothesis of `CreatedPaymentsPass` is
`Truthful`, which the stores of the run `payment_flow` are. That a store changes
what it says between two reads is not excluded, nor, by these theorems, that the
spends go in circles.

`ReadsAreFew` does need the ranking of `AncestryIsAnchored`, since a creator that
walks in circles reads for ever. It is also what makes `Chains` a function: of any
places in the inputs of transactions, one leads to none of the others
(`PlacesAreFounded`), so that the definition settles the values at one place after
another (`PlacesAreCounted`), and two beginnings of it agree (`ChainsValues`).
That the reads are few enough is not inductive, because it says nothing of what
is still to be read. `ReadsInv` adds it up: there is a number for each call of
the recursion (`IsBudget`), how many reads there may have been when it returns,
and a caller has room left below its own for the chains through its next
inputs. A call is made with what its caller does not need afterwards
(`RoomPushed`), and gives back what it has not used (`RoomPopped`); a parent that
is skipped has no chain of its own, and one whose proof is found leaves its
chains unread.

`SpecialKParserProofs` proves, for streams of any length:

- `Invariance`: `Spec => []IInv`,
- `TypeCorrect`: `TypeOK`, with the wait group's counter,
- `RaceFreedom`: `NoRace`,
- `Losslessness`: `NothingLost`,
- `MalformedIsNotReturned`: `MalformedNeverReturns`,
- `TreeIsWellFormed`: `EnvelopeIsTree`,
- `NothingIsLeftOut`: `ReturnsWhatWasGiven`.

The wait group is empty when the last goroutine has handed its item over, not
when the collector has stored it; that the signal still finds everything stored
rests on the collector receiving it in the same `select`. `IInv` therefore tells
what was handed over (`Handed`) from what was stored (`Stored`), and `MapsInv`
says that the maps hold exactly the latter until the assembly starts. Once it
has, no goroutine is left (`RoutineInv`), so all that was given is stored
(`AllStored`), and a transaction leaves its map only for a node of the envelope
or because it has a proof (`PlaceStep`). The finite set the wait group counts is
related to its counter by the library's facts on cardinality.

The last two theorems rest on a second invariant, `TreeInv`, inductive relative
to `IInv`. Its heart is that a node other than the tip is about a transaction
that has left the map and has no proof (`NodesInv`): what is searched for is in
the map and, below the tip, not the tip's own transaction (`PassInv`), so a
search can only hit the tip (`HitTree`) or hang a new node (`PlaceTree`), and no
transaction gets two. The tip is the one node there is before the assembly
(`TipInv`); it gets its proof and callback when it leaves the map (`AnchorInv`).

`EnvelopeProofs` proves, for envelopes of any shape and depth, with any number of
callbacks, in both formats:

- `Invariance`: `Spec => []IInv`,
- `TypeCorrect`: `TypeOK`, so no flake is read beyond the last, and the parser
  ends where the flakes end,
- `WrittenChains`: `WrittenIsChain`, malformed proofs included: the last
  transaction comes with a proof if and only if the serialiser had no error,
- `ChainsAreReadBack`: `ChainsReadBack`,
- `WholeOnly`: `OnlyWholeIsRead`, of bytes written and of any received.

`IInv` has two parts for the writer and two for the reader. `WriterInv` and
`ChainInv` say that whatever is left to write is spent by the last transaction
written without a proof, and that something is left as long as that transaction
is the last of all and no error has ended the loop. This is what
`WrittenIsChain` lacks: it speaks of what is written, and a loop that returns
early leaves nodes out. That a node adds one transaction, and flakes that are
none, is the same for both formats (`IsBlock`). `EnvelopeAssumption` enters
where the serialiser goes down: without parents, a transaction without a proof
would be the end of what is written. `ReaderInv` is the stack of the parser's
calls: all but the last wait in the loop over their parents, and one about to
read a flake has one to read. `WholeInv` says that the flakes behind the offset
were whole, because on any other the parser panicked, and that the version was
the one it takes.

`ChainsReadBack` compares two recursions, of the serialiser and of the parser.
`ChainWritten` says how far the first has come down the chain: the flakes so far
are its first ones (`FlakeAt`), and the node that comes next is the next one of
the chain. `ChainRead` says of the second what it has made of every node before
a given flake is read (`SoFar`), and which call reads it (`CallAt`). Both are
inductive relative to `IInv`, flake by flake: of a transaction that has another
below it, of the last one, of a callback, of the proof.

`MiningProofs` proves, for any jobs, blocks of any size, targets of any value, and
bytes of any number of bits:

- `Invariance`: `Spec => []IInv`,
- `TypeCorrect`: `TypeOK`, so the first part of a coinbase states and holds no more
  than the hundred bytes a script may have, nor does the built script when the extra
  nonces have the twelve bytes left for them between them (`BuildCoinbase` takes
  longer ones, and the script is longer then),
- `MinedWorkMeetsTarget`: `WorkMeetsTarget`,
- `MinedBlocksReadBack`: `MinedBlockReadsBack`.

`IInv` says at each stage what has been made from the job: the coinbase from its
parts (`CoinbaseInv`), the header with the Merkle root of the whole list
(`HeaderInv`), the hash below the target (`TargetInv`), the bytes and what is
read of them (`BlockInv`). The root is the one step that is an induction, on the
level: the fold over the branches stands on the first node of each
(`RootFromBranches`), and a node is the parent of its children. That a hash
below the expanded target meets the target the compact form stands for
(`TargetIsMet`) rests on the power of a sum (`TwoToSum`), by induction too, and
on what division by a power leaves.

These invariants hold on the instances of the runs too, where TLC checked them;
`ReadsInv` with the largest numbers that its calls may have, since it only says
that there are some. The proofs rest on the named assumptions of the modules:
that markers (`Null`, `Bad`, `Malformed` and the like) are no transactions, and
that inputs, payments and streams have their types; that transactions without a
proof come with a parent, and branches are those of the coinbase.

Only model-checked: every liveness property (`Termination` of PaymentVerifier,
SpecialKParser and Envelope, and `CollectionEnds`), with the liveness part of
Inclusion. Fairness and ENABLED are out of the prover's reach. Every invariant
that a passing run checks is proved.

## Not modelled

- Byte manipulation and formatting are conversions without state. Byte order is
  abstracted: the reversals around every hash cancel.
- The framing of mAPI callbacks inside a chunk or a flake: a callback is well
  formed, malformed, or ends beyond its chunk, and is only counted in Envelope. The
  creator never adds any.
- Hashes in upper case in a JSON proof: they are the same hashes, except that
  `isLastInTree` compares texts (`verifymerkleproof.go:181`).
- What a slice that reaches beyond the bytes of an envelope, within the capacity
  of its array, may hold: such a flake is one of those received.
- The byte form of `MerklePath`, and `GetMerkleBranches`, whose helper indexes
  beyond its slice on its first call (`merklebranches.go:15`): there is nothing
  after it to model.
- Bytes that are no BUMP, and a proof of 253 nodes or more, whose count is
  written as one byte and read as a variable-length integer
  (`merkleproof.go:93`).
- Difficulty as a floating-point number, and hash rate; the JSON of a header,
  beyond fields of the wrong length.

## Plan

1. *Done.* MerkleHash, MerkleTree, SpecialKParser, MerkleProofVerifier,
   PaymentVerifier, Bump; the proofs about MerkleTree.
2. *Done.* Inclusion and its refinement; AncestryCreator and PaymentFlow;
   Envelope; Mining; the proofs about PaymentVerifier and SpecialKParser; BlockTree,
   and with it the proofs of the Merkle root, of Bump and of the safety of
   Inclusion.
3. An envelope's bytes given to SpecialKParser: Envelope composed with it, as
   PaymentFlow composes creator and verifier.
4. Merkle proofs of PaymentVerifier answered by Inclusion instead of by a
   constant.
5. *Done.* That what the creator makes is `Honest`, and with it `CreatedIsAccepted`
   and `EvidenceKept` of PaymentFlow.
6. *Done.* The proofs of Envelope and Mining, and of `ReadsAreBounded`.
