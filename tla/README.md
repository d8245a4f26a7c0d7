# A formal model of the PrimeV sequencer

TLA+ modules, TLC runs and TLAPS proofs about the Go program under
`src/sequencer`: a sequencer that accepts Ethereum transactions over JSON-RPC,
encrypts them with Shutter threshold cryptography, bids for their inclusion at
mev-commit providers, tells the Shutter keypers of the commitments it wins,
receives the decryption keys, and verifies that the transactions reached the
chain. Paths such as `bidder.go:62` are below `src/sequencer`.

## The system

All state is one in-memory map, the transaction store. Nothing is persisted, so
a crash loses everything and there is no recovery to model. Six kinds of
goroutine share the store: request handlers of the RPC server and of the REST
API, the bid loop, the workers that handle key messages, the verifier, and, for
each bid, a receiver that passes commitments to the bid loop. Each method of the
store is atomic under its mutex; what a goroutine does between two methods, or
through a pointer that a method returned, is not.

| component | state | operations | talks to |
|---|---|---|---|
| transaction store (`txstore/store.go`) | map from hash to transaction: identity, eon, last block of the window, key, status, block committed for, retries | store, find by hash / status / identity / committed block, overwrite status, record a commitment, record a retry | called by all |
| RPC server (`rpc/server.go`) | none beside a request's locals | `eth_sendRawTransaction`; refuses or proxies the rest | encryptor, store |
| encryptor (`shutter/encryptor.go`, `utils/utils.go`) | none | read block, eon and eon key; draw an identity; encrypt | upstream node |
| bid loop (`main.go`, `Sequencer.Start`) | the bid at hand | every 10 s: make a bid, submit it, send the commitments on or reset the transactions | bid manager, p2p |
| bid manager (`bidder/bidder.go`) | two channels and a goroutine per bid | choose, block and mark transactions; stream commitments in | store, mev-commit node |
| key handler (`p2p/msg_handler.go`) | the message at hand | for each key: find the transaction, set its key, then its status | store |
| verifier (`transaction_verifier/verifier.go`) | the list at hand | every interval: list what is due, ask for receipts, finalise | store, upstream node |
| REST API (`api/rest.go`) | none beside a request's locals | `GET /decrypted_tx/{hash}`: find the transaction, look at its key, decrypt | store |
| start (`main.go`, `runSequencer`) | configuration | start all of the above, stop on a signal | |

The life of a transaction is its status: `init`, `bidsubmitted`, `committed`,
`decrypted`, `finalised`, and `blocked` when its window has passed. What is hard
about it is that every change is an unconditional overwrite
(`UpdateTransactionStatus`) made from a list or a pointer that was read under an
earlier lock, by goroutines that wait for the network in between. What makes each
component correct:

- *store and RPC server*: of the requests that race for one transaction, the one
  that is told it was stored is the one whose encryption is kept;
- *bid loop and manager*: a transaction is bid for only within its window; however
  a bid ends, its transactions wait again or are committed; they are not bid for
  again once the keypers know of them; none is bid for forever;
- *key handler*: a key finds its transaction and takes effect, whatever else the
  message carries and however often it comes, and no other goroutine undoes it;
- *verifier*: it finalises only what is on the chain and due, and every such
  transaction in the end;
- *receivers*: a call returns whatever its stream does; unless it timed out it has
  recorded all that its stream delivered, and nothing of another call's; a receiver
  ends when its call has returned;
- *REST API*: a builder gets in plain only what is committed; once one got it, none is told
  that it is unknown or locked; and a query for what is decrypted is decided by its key.

The hazards behind these, line by line, are in `PROJECT.json`.

## Modules

Every module is parameterised by constant sets and is parsed, checked and proved
about as it stands: nothing is overridden for TLC.

| module | models | notes |
|---|---|---|
| `TxStore` | `txstore/store.go` | one operator for each method; readers return sets of hashes, as the pointers the Go methods return are only used for fields that never change |
| `Environment` | the chain and the keypers | external: a growing chain, receipts, the commitments sent, the keys that may come |
| `RpcServer` | `eth_sendRawTransaction`, `EncryptTransaction` | one action for each access to the store and one for the calls in between |
| `BidLoop` | `Sequencer.Start`, `CreateBidFromInitTransactions`, `SubmitBidGRPC` | one action for each access to the store, each turn of a loop that writes, each outcome of a call |
| `KeyHandler` | `DecryptionKeysMsgHandler` | key and status are two steps, as in the code |
| `Verifier` | `verifyDecryptedTransactions` | block number, list, receipt and write are four steps |
| `Sequencer` | `runSequencer` | the interleaving of the above; fairness; the properties |
| `TxLifecycle` | | abstract: the life of a transaction as clients and keypers may rely on it |
| `LifecycleRefinement` | | the refinement mapping from `Sequencer` to `TxLifecycle` |
| `BidStream` | `SubmitBidGRPC` in detail | the receiver, its two channels, the deadline and the `select`; extends `BidLoop` |
| `RestApi` | `GetDecryptedTx`, the key's assignment in `HandleMessage` | the key as a slice written word by word; extends `KeyHandler` |
| `DetailedSequencer` | `runSequencer` | `Sequencer` with `BidStream` in the place of `BidOnStream`, the detailed key handler, and the builders |
| `SequencerInvariant`, `DetailedInvariant` | | the inductive invariants |
| `MCSequencer`, `MCDetailed` | | symmetry for TLC |
| `SequencerProofs` | | lemmas about the operators, and type correctness |
| `SafetyProofs` | | the safety theorems of `Sequencer` |
| `LifecycleProofs` | | its first action properties, and that it implements `TxLifecycle` |
| `TxLifecycleProofs` | | what `TxLifecycle` promises, proved of it alone |
| `PropertyProofs` | | eons, keys and passes of the bid loop, and the promises carried over to `Sequencer` |
| `DetailedProofs` | | that `DetailedSequencer` implements `Sequencer`, and its safety theorems |

There are three levels: `DetailedSequencer` implements `Sequencer`, which
implements `TxLifecycle`.

| level | what a step is | what is hidden |
|---|---|---|
| `TxLifecycle` | a transaction is stored, promised for a block, revealed, confirmed or dropped | bids, retries, statuses, messages |
| `Sequencer` | one access to the store, one outcome of a call | receivers and channels, the words of a key, builders |
| `DetailedSequencer` | one channel operation, one word | |

### How state and actions correspond to the code

- `txs` is the store's map. A transaction's payload is its identity, eon and window;
  hashes, identities and keys are opaque. `decryptionKey` says whether a key is there;
  only a builder's query asks which (`opens`, in `RestApi`). `Retries` is missing as nothing reads or writes it: the only
  method that does (`UpdateRetriedTx`) has no caller.
- `rpc[r]` is a request handler's goroutine. A request *is* the identity it draws
  (32 random bytes, taken to be distinct). `known` and `stored` are its two
  successful replies.
- `bidder` holds the locals of the bid loop's goroutine. `pc` is where it stands:
  `classify` before the list is read, `block`, `mark`, `remark` and `reset` in the
  four loops that write statuses, `stream` while commitments come in, `gossip`
  while they are sent on. `pending` is what the current loop has left. In `Sequencer`
  the stream is what the main `select` can take next: a commitment, the end, an
  error, the closed channel that hides an error, or the timeout.
- `calls[c]` is a call of `SubmitBidGRPC`, and what is left of it when it has
  returned: where its receiver is, the commitment it has in hand (`commitmentsCh` is
  unbuffered, so handing over is one step of both), the content of `errCh`, whether
  `commitmentsCh` is closed, and whether the context is done. `outcome` is what the
  call returned; `received` is a history of what the stream delivered, and decides
  only that a provider commits to a bid once.
- `keyh[w]` is the message a worker handles, and the transaction it has found. In
  `Sequencer`, finding a transaction and writing its key are one step: transactions are
  never removed. In `DetailedSequencer` they are `FindTransaction` and one `StoreWord`
  for each of the two words that a reader looks at, in any order, as neither side holds
  a lock; `SetKey` happens with the last word. `writer[w]` is the write in progress and
  `slice[h]` the words that are there. `opens` has the hashes whose pointer is to a key that
  opens the transaction; it changes with the pointer, through which a key is read.
- `api[q]` is a builder's request: the lookup, the test of the key's length, and the
  read of its bytes are three steps. `broken` is a length without bytes: the request
  panics, and the builder gets no answer. `refused` is a key that is there and does not parse
  or does not decrypt (`rest.go:105`, `:143`); the builder cannot tell it from `locked`. The
  refusal of `rest.go:127` cannot happen, as the encryptor made the message.
- `verifier` holds the verifier's locals.
- A step that only reads (the tick that cannot get a block number) and does
  nothing else is not an action: it would be a stuttering step.
- Definitions under a comment beginning with *Mutant* are altered forms of the
  definition that follows; nothing uses them, and each breaks the property that
  `PROJECT.json` names.

### What is assumed of the surroundings

The chain is not reorganised, block numbers do not go back, and a receipt, once
there, stays. The eon of a block is fixed (`EonOf`, from the blocks at which a new
keyper set takes over). A commitment is for the transactions and the block of its bid. The
keypers release the key of an identity of this sequencer only after they were sent
a commitment for it; they may send it any number of times, in any message, at any
time, or never. A key need not be the right one: nothing here looks at the eon of a
message or tries the key, so it may be another keyper set's; only its length is taken to
be that of a key. Identities are unique. Nothing is assumed of the providers
beyond that, nor of the order or fate of the requests.

## Properties

Invariants of `Sequencer`:

- `TypeOK`.
- `NoStrandedBid`: `bidsubmitted` only while the bid loop holds a bid for the
  transaction. No later tick looks at that status, so one that stays behind is lost.
- `GossipedNeverRebid`: once the keypers were sent a commitment, the transaction
  does not wait, is not bid for, and is not blocked.
- `GossipedFindable`: its identity is in the store.
- `ReplyIsKept`: the replies of the RPC server agree with the store.
- `DecryptedIsVerifiable`: a decrypted transaction has its key, and the block
  without which the verifier would overlook it.
- `CommittedWithinWindow`: no commitment after the window.
- `FinalisedIsOnChain`: finalised is on the chain, up to the chain's latest block.
- `VerifierListIsCurrent`: no other goroutine undoes what the verifier has read.
- `EonIsNotPast`: the keyper set a transaction is encrypted for has not handed over by
  the block it is committed for; it may be a later one than that block's, but only if one
  takes over before the end of the window.
- `KeyIsFollowed`: a key in the store is shown by the status, or a worker is about to
  write it.
- `StrongInductive`: the invariant of the proofs.
- `PromisesHold` (of `TxLifecycle`, read through the refinement mapping): a promise is for
  a block of the window, a confirmation for what is on the chain, and no identity serves two.
- `BlocksInHand` (in `LifecycleRefinement`): the windows and blocks that goroutines
  hold do not run ahead of the chain, and what is to be blocked has expired.

Action properties: `OnlyWaitingIsBid` (marking and blocking overwrite nothing but
`init`), `CommitmentIsFixed` (identity and block stay what the keypers were told),
`CommittedIsKept` (a commitment that could not be sent on is not thrown away either),
`KeyIsHandled` (a worker is done with a key when its transaction has it, and with the
transaction when its status says so), `PassesEnd` (each step of a pass of the bid loop goes
on to a later point, or leaves less to receive, to send or to write), `PromisesStand` (of
`TxLifecycle`: promises, their blocks, identities and windows are not changed, and what is
dropped stays dropped).
Liveness: `EventuallySettled`, `KeyTakesEffect`, `OnChainIsFinalised`.
Refinement: `ImplementsTxLifecycle`.

Of `DetailedSequencer`:

- `NothingLeftBehind`: when a call returns otherwise than by its timeout, its receiver
  has nothing in hand, whichever channel told the loop.
- `StreamIsRecorded`: what an open call has recorded is what its own stream delivered,
  but for the one commitment in its receiver's hand.
- `DecryptedIsReadable`: the status `decrypted` comes after the whole key.
- `PlainOnlyIfCommitted`: a builder gets in plain only what is committed for a block and
  is not bid for again, although the API looks at nothing but the key.
- `PlainStays` (action property): once a builder got a transaction in plain, no query for it
  is told that it is unknown or has no key, or reads half a key, whichever keys are written
  again. It may be refused, when a key that does not open the transaction was written over.
- `DecryptedIsAnswered` (action property): the query of a builder for a transaction whose
  status is `decrypted` runs to the end, where the key that is there decides: plain if it opens
  the transaction, refused if not. That it opens it is not claimed, and not so.
- `CallReturns`, `ReceiverEnds` (liveness). The latter allows one exception, which the
  code has: after a timeout a receiver may stay for ever with a commitment in hand.
- `ImplementsSequencer` (refinement), and `DetailedInductive`, the invariant of the proofs.

Statements of the repository's own README and comments that are refuted:

- `FinalisedIsFinal` (`src/README.md:54`): the status `finalised` is left again when
  a key is broadcast once more (`msg_handler.go:59` overwrites it with `decrypted`).
  The verifier finalises the transaction again at a later tick, which
  `OnChainIsFinalised` covers.
- `UnverifiedIsBlocked` (`src/README.md:78`, `:145`): nothing retries or blocks a
  transaction that is not included; the verifier asks for its receipt for ever.
- `EonIsOfInclusion` (`src/README.md:91-92`): the eon is that of the last block of the
  window (`encryptor.go:45`), not of the block the transaction is bid for.
- `NoErrorIsSwallowed` (comment at `bidder.go:220`): when a stream breaks off, the
  `select` may take the closed channel before the error, and the call succeeds.
- `NoTornRead` (`src/README.md:60`): the key is written and read without the mutex.

The README of the repository also names the route `/get_decrypted_tx/{txHash}`
(`src/README.md:173`), where `rest.go:194` serves `/decrypted_tx/`; routes are not
modelled.

## Runs

`tlc -config <run>.cfg MCSequencer.tla`, and `MCDetailed.tla` for the last four.
Deadlock is checked in all runs of `MCSequencer`, and not in those of `MCDetailed`:
there the numbers of calls and of queries are bounds, and when they are used up
everything may rest.

| run | instance | shows |
|---|---|---|
| `Lifecycle` | 2 hashes, 2 requests, 1 provider, 1 worker, blocks 0–3, window 2, an eon from block 3 | all safety invariants and `StrongInductive`; over 3 million states up to symmetry |
| `Contention` | 1 hash, 3 requests, 1 provider, 2 workers, another bidder's identity, blocks 0–2, window 1 | races of requests and of key messages, and `KeyIsHandled`; 1.8 million states |
| `Lives` | 2 hashes, 2 requests, 2 providers, 1 worker, blocks 0–1, window 1 | `ImplementsTxLifecycle`, `PromisesHold`, `PromisesStand`, `BlocksInHand`, `PassesEnd` and the other action properties |
| `Settling` | 2 hashes, 2 requests, blocks 0–1, window 1, `BidFairSpec` | `EventuallySettled` |
| `Completion` | 1 hash, 1 request, 2 providers, another bidder's identity, blocks 0–3, window 2, `FairSpec` | `KeyTakesEffect`, `OnChainIsFinalised` |
| `DuplicateKey` | 1 hash, 1 request, blocks 0–2 | violates `FinalisedIsFinal` |
| `MissedInclusion` | 1 hash, 1 request, blocks 0–2 | violates `UnverifiedIsBlocked` |
| `EonSwitch` | 1 hash, 1 request, window 2, an eon from block 2 | violates `EonIsOfInclusion` |
| `Streaming` | 1 hash, 1 request, 2 providers, 2 calls, no worker and no query, block 0, `StreamFairSpec` | the channels and receivers; 82 thousand states |
| `Builders` | 1 hash, 1 request, 1 provider, 2 workers, 1 call, 2 queries, blocks 0–1 | keys and builders, `DecryptedIsAnswered`, and `ImplementsSequencer`; 1.3 million states |
| `SwallowedError` | 1 hash, 1 request, 1 provider, 1 call | violates `NoErrorIsSwallowed` |
| `TornKey` | 1 hash, 1 request, 1 worker, 1 call, 1 query | violates `NoTornRead` |

*Bounds.* The only unbounded quantity is the block number, bounded by `LastBlock`
in the guard of `Mine`; requests are as many as identities, bids in the detailed
model as many as `Call`, and builders' requests as many as `Query`. Two calls make a
receiver that outlives its call beside the next one; two providers make one commitment
in hand and one recorded. `Streaming` needs no chain, no keys and no builders, as
streams depend on none of them. Two workers write one key at once while two builders
read it. `InclusionWindow` is 1,
as in the code. The code's `MaxInclusionWindow` is 30; with 2 a transaction can be
bid for, be dropped, be bid for again for a later block and then expire, which are
all the cases that the comparisons tell apart. Two transactions make bids with one,
two and no eligible transactions, and loops that are interrupted half way; three
requests for one hash make a winner, a loser and one that finds the transaction
known; two providers make one commitment that is sent on and one that is not. The
proofs have no such bounds.

*Fairness.* `MineStep`: the chain grows (to `LastBlock`). `BidTurn`, `VerifierTurn`:
the goroutines are driven by tickers and run on; a bid ends after two minutes at the
latest. The calls to the upstream node have no timeout (`encryptor.go:139`,
`verifier.go:90`): that they return is an assumption. `HandlerTurn`: a message being
handled is handled to its end, as the handler makes no blocking call. Strong fairness
of `ReceiptAnswered`: the verifier asks again at every tick, and not every answer is
an error. Nothing is assumed to come from clients, providers or keypers, so all
liveness properties start from something that has already happened.
`EventuallySettled` needs the first two only. `StreamFairSpec` assumes that the loop
runs on, that the two minutes of a call pass (`main.go:199`), that a receiver closes
its channel after its error, and that `Recv` fails at some time once the context is
done, by its deadline or by `cancel` (`main.go:201`), as gRPC promises. It does not assume that a stream
delivers anything or ends, nor anything of the order in which `select` chooses.

## Proofs

`tlapm` on the six `...Proofs.tla`. `SequencerProofs`, `SafetyProofs`, `LifecycleProofs`,
`PropertyProofs` and `DetailedProofs` each extend the one before; `TxLifecycleProofs` is about
the abstract specification and is instantiated by `PropertyProofs`. They assume only the named
assumptions on the constants: block numbers and windows are natural numbers, the
blocks that begin an eon are finitely many, `InclusionWindow` is positive, and other
bidders' identities are not this sequencer's.

- `TypeCorrect` (`Spec => []TypeOK`). `TypeOK` is not inductive: a bid's identities
  are read from the store for the bid's hashes, so `BidsAreStored` goes with it.
- `InductiveInvariant` (`Spec => []Inductive`), and from it every safety invariant that
  the runs check of `Sequencer`: `BidsComeBack` (`NoStrandedBid`), `GossipIsHonoured`
  (`GossipedNeverRebid`), `KeysAreMatched` (`GossipedFindable`), `DecryptedAreSeen`
  (`DecryptedIsVerifiable`), `WindowsAreKept` (`CommittedWithinWindow`), `RepliesAreKept`
  (`ReplyIsKept`), `VerifierIsRight` (`FinalisedIsOnChain`), `ListsStayCurrent`
  (`VerifierListIsCurrent`).
- The action properties: `BidsTakeTheWaiting` (`OnlyWaitingIsBid`), `CommitmentsStand`
  (`CommitmentIsFixed`), `CommitmentsAreKept` (`CommittedIsKept`).
- `BlocksAreRead` (`BlocksInHand`), and with it `SequencerImplementsTxLifecycle`.
- `StrongInvariant` (`Spec => []StrongInductive`), and from it `EonsAreNotPast`
  (`EonIsNotPast`), `KeysAreFollowed` (`KeyIsFollowed`), `KeysAreHandled` (`KeyIsHandled`) and
  `PassesComeToAnEnd` (`PassesEnd`).
- Of `TxLifecycle`, for any windows, `PromisesAreSound` and `PromisesAreFinal`; of
  `Sequencer`, because it implements `TxLifecycle`, `PromisesAreHeld` (`PromisesHold`) and
  `PromisesAreKept` (`PromisesStand`).
- `DetailedImplementsSequencer`, by which all of the above holds of the detailed program,
  and `DetailedInvariantHolds`; from it `NothingIsLeftBehind`, `StreamsAreRecorded`,
  `DecryptedCanBeRead`, `PlainWhenCommitted`, `PlainForAll` and `DecryptedAreAnswered`, each
  about the property named beside it in `PROJECT.json`. `DetailedImplementsTxLifecycle` puts
  the two refinements together, and `DetailedIsSafe` states the properties of `Sequencer` of
  the detailed program.

The argument. No goroutine checks a status before it overwrites it; that no update
is lost rests on the key handler and the verifier writing only to transactions whose
commitment was sent (`KeyInv`, `GossipInv`, `VerifierListIsCurrent`), and the bid
loop only to transactions whose commitment was not (`BidUnknown`). The two sets are
kept apart because a bid's identities are sent only after `SubmitBidGRPC` has
returned commitments without an error, when every transaction of the bid is
committed (`BidStatuses`), and because the identity leads back to one transaction
(`ReplyIsKept`). Hence no goroutine changes what another has read, and every bid's
statuses are known at each point of the loop. `StatusWrite`, `CommitWrite`, `KeyWrite`
and `NewWrite` say what each writer of the store changes; `KnownWriteKeeps` and
`BidWriteKeeps` are the two halves of the argument; the other lemmas take the actions
one at a time.

`LifecycleProofs` sorts the steps of every goroutine into a few kinds (`Stores`,
`BidWrites`, `Gossips`, `KeyComes`, `Decrypts`, `Finalises`, `Quiet`, `Grows`), says
with `StepKind` that every step is of one of them, and proves the action properties and
the refinement for each kind. The mapping takes a transaction for promised when the
keypers were told, not when its status says so, and for revealed when its key is there:
statuses go back and forth (`committed` to `init` when a bid fails after all, `finalised`
to `decrypted` when a key is repeated), and the lives do not, except from confirmed to
revealed and again.

`PropertyProofs` adds three facts to `Inductive`. `EonsInHand`: a transaction's eon and
window come from one block, also while its request still holds them; as eons follow the
blocks (`EonMonotone`) and the committed block is within the window
(`CommittedWithinWindow`), the eon cannot be an earlier one than the block's, and
`EonConstant` says that they are equal unless an eon begins in between. `OneFound`: an
identity is that of one transaction, so a worker has one in hand. `KeyIsFollowed`, which
needs that only the key handler and the verifier write to transactions the keypers know of
(`KeyInv`, `BidUnknown`). `HandlerMoves` then leaves two steps to look at for `KeyIsHandled`:
a worker finds the transaction of a key, and it writes the status.

`PassesEnd` is the safety half of `EventuallySettled`. `Ahead` is a strict order on the
points of a pass, and at one point the commitments left, or else the transactions left, become
strictly fewer. That commitments run out is the assumption that a provider commits to a bid
once; `bidder.go:230-234` would take any number. `Provider` is finite in the program, as is what is in the store when the
list is made, so a pass that takes steps comes to `idle`; that it takes them is fairness,
and checked by `Settling`. `OneOpen` plays this part for `CallReturns`: the loop waits in
`stream` only while a call is open, so that some channel or the deadline can wake it.

The promises are proved of `TxLifecycle` alone, where a step changes one life and nothing
is hidden, and hold of `Sequencer` by instantiation with the refinement mapping: the proof
never looks at a goroutine again.

`DetailedProofs` needs little of the details to show the refinement: each case of the
`select` is a disjunct of `BidOnStream`, and only the last word of a key is a step of
`Sequencer`. The invariant is then proved relative to `Inductive`, which comes with the
refinement. Its core is `ChannelInv`: an error in `errCh`, or the closed channel, means
that the receiver has passed on all it received. `OneOpen` and `StreamIsRecorded` keep
the calls apart, as a bid begins with no commitment recorded (`BidLocals`). For the
keys, `KeyWordsInv` says that words are only written of keys that are out, and stay.

Everything proved is also model-checked (`DetailedIsSafe` by way of
`ImplementsSequencer`). Liveness (`EventuallySettled`, `KeyTakesEffect`,
`OnChainIsFinalised`, `CallReturns`, `ReceiverEnds`) is only model-checked: fairness and
ENABLED are out of the prover's reach.

## Not modelled

- `UpdateRetriedTx` and `GetTransactionsByIdentityAndStatus`: no caller, so no state of
  the program comes from them. `UpdateRetriedTx` is why `UnverifiedIsBlocked` fails.
- Parsing and encoding of JSON-RPC, hex, protobuf and URLs; the cryptography (whether a
  key opens a transaction is a choice); the contents of a bid beyond hashes, identities and block;
  logging and statistics. The methods that the RPC server proxies or refuses.
- Configuration, start and shutdown (`readFromEnv`, `Start`, signals): no state of the
  transactions depends on them, and nothing is persisted that stopping in the middle of a
  bid could harm.
- A stream whose context is done before the call to `SendBid` returns is `SendBidFails`;
  the gRPC library's buffers and reconnections are not looked into.
- The test client (`src/test_client`), a manual load generator, and the deployment files.

## Plan

The three levels and their proofs are in place: every safety invariant and every action
property that a run checks is a theorem. What would add to them:

1. A measure for `PassesEnd`: a number, from the cardinalities of what is left, that every
   step of a pass lowers, instead of the order of points and sets.
2. The same measure for a receiver, as the safety half of `ReceiverEnds`.
3. Larger instances of `Builders`, with another bidder's keys and two transactions whose
   keys come in one message.
4. The RPC server's upstream calls one by one, if the eon or its key may change between
   them (`encryptor.go:45-66`).
5. Start and shutdown, should the sequencer begin to persist its store.
