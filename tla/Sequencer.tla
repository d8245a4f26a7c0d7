----------------------------- MODULE Sequencer -----------------------------
(***************************************************************************)
(* The whole sequencer: the goroutines of the RPC server, the bid loop,    *)
(* the p2p library and the verifier, interleaved over the one transaction  *)
(* store (main.go, runSequencer), and their surroundings.                  *)
(***************************************************************************)
EXTENDS RpcServer, BidLoop, KeyHandler, Verifier

vars == <<txs, envVars, rpc, bidder, keyh, verifier>>

Init ==
    /\ txs = <<>>
    /\ InitEnvironment
    /\ InitRpc
    /\ InitBidder
    /\ InitKeyHandler
    /\ InitVerifier

MineStep     == Mine         /\ UNCHANGED <<rpc, bidder, keyh, verifier>>
RpcTurn      == RpcStep      /\ UNCHANGED <<envVars, bidder, keyh, verifier>>
BidTurn      == BidStep      /\ UNCHANGED <<block, onChain, rpc, keyh, verifier>>
KeyTurn      == KeyStep      /\ UNCHANGED <<envVars, rpc, bidder, verifier>>
VerifierTurn == VerifierStep /\ UNCHANGED <<envVars, rpc, bidder, keyh>>

Next ==
    \/ MineStep
    \/ RpcTurn
    \/ BidTurn
    \/ KeyTurn
    \/ VerifierTurn

Spec == Init /\ [][Next]_vars

-----------------------------------------------------------------------------
(***************************************************************************)
(* Fairness.  The chain grows.  The bid loop and the verifier are started  *)
(* again by their tickers and every call they make returns (a bid at the   *)
(* latest after two minutes); a key handler that has begun runs on.  A     *)
(* transaction whose receipt is asked for again and again once it is there *)
(* is found at last: the calls that fail are not all of them.  Nothing is  *)
(* assumed of the providers, the keypers and the clients.                  *)
(***************************************************************************)

ReceiptAnswered(h) ==
    ReceiptFound(h) /\ UNCHANGED <<envVars, rpc, bidder, keyh>>

HandlerTurn(w) ==
    HandleMessage(w) /\ UNCHANGED <<envVars, rpc, bidder, verifier>>

BidFairness == WF_vars(MineStep) /\ WF_vars(BidTurn)

Fairness ==
    /\ BidFairness
    /\ WF_vars(VerifierTurn)
    /\ \A w \in Worker : WF_vars(HandlerTurn(w))
    /\ \A h \in Hash : SF_vars(ReceiptAnswered(h))

FairSpec == Spec /\ Fairness

\* Enough for what the bid loop must do whatever the others do.
BidFairSpec == Spec /\ BidFairness

-----------------------------------------------------------------------------
(***************************************************************************)
(* Invariants                                                              *)
(***************************************************************************)

\* Every variable is of its type.
TypeOK ==
    /\ TransactionStoreOK
    /\ EnvironmentOK
    /\ RpcOK
    /\ BidderOK
    /\ KeyHandlerOK
    /\ VerifierOK

\* The points at which the loop may have a transaction marked as bid for.
BidOpen == {"mark", "stream", "remark", "reset"}

\* A transaction is in the status bidsubmitted only while the bid loop still
\* holds a bid for it: whichever way a bid ends (refused, timed out, broken
\* off, ended without a commitment), it leaves no transaction behind that no
\* later bid would pick up (bidder.go:221, main.go:202).
NoStrandedBid ==
    \A h \in DOMAIN txs :
        txs[h].status = "bidsubmitted"
            => h \in bidder.hashes /\ bidder.pc \in BidOpen

Settled == {"committed", "decrypted", "finalised"}

\* Once the keypers were sent a commitment for a transaction, and its key may
\* become public, it never waits for a bid, is bid for, or is blocked again,
\* although the bid loop writes the statuses of a list it made earlier and
\* resets failed bids (bidder.go:74-90, main.go:202-211).
GossipedNeverRebid ==
    \A h \in DOMAIN txs : txs[h].identity \in gossip => txs[h].status \in Settled

\* The identity of a commitment the keypers were sent is that of a stored
\* transaction, so the key they answer with finds it: of two requests that
\* race to store a transaction, the one that comes second does not replace
\* the identity of the first (server.go:185-207, store.go:60).
GossipedFindable ==
    \A i \in gossip : GetTransactionsByIdentity(i) # {}

\* Requests and the store agree.  A request that was answered with a hash has
\* its transaction in the store; one that was answered as having stored it is
\* the one whose encryption the store keeps, and every stored encryption is
\* such a request's: no request is told that its encryption is used when the
\* one of a concurrent request is (server.go:185-207, store.go:60).
ReplyIsKept ==
    \A r \in Request :
        /\ rpc[r].pc \in {"known", "stored"} => rpc[r].hash \in DOMAIN txs
        /\ \A h \in DOMAIN txs :
              txs[h].identity = r <=> rpc[r].pc = "stored" /\ rpc[r].hash = h

\* A decrypted transaction has its key and the block of its commitment, without
\* which the verifier would never look at it (store.go:234).
DecryptedIsVerifiable ==
    \A h \in DOMAIN txs :
        txs[h].status \in {"decrypted", "finalised"}
            => txs[h].decryptionKey /\ txs[h].commitedBlock # 0

\* No transaction is committed for a block after the last one of its window,
\* however long the bid took (bidder.go:62, main.go:182).
CommittedWithinWindow ==
    \A h \in DOMAIN txs : txs[h].commitedBlock <= txs[h].maxInclusionWindow

\* A finalised transaction is on the chain, and the chain has reached the
\* block it was committed for (verifier.go:97-118).
FinalisedIsOnChain ==
    \A h \in DOMAIN txs :
        txs[h].status = "finalised"
            => h \in onChain /\ txs[h].commitedBlock <= block

\* No other goroutine takes a transaction out of decrypted while the verifier
\* has it on its list: what the verifier finalises is what it read
\* (verifier.go:97-118).
VerifierListIsCurrent ==
    \A h \in verifier.pending \union verifier.found :
        /\ h \in DOMAIN txs
        /\ txs[h].status \in {"decrypted", "finalised"}

\* The keyper set a transaction is encrypted for has not handed over to another
\* one by the block it is committed for, although the eon is chosen when it is
\* stored and the block with each bid (encryptor.go:45, main.go:182): the key
\* may be a later set's than the block's, never an earlier one's, and that only
\* when a set takes over between the block and the end of the window.
EonIsNotPast ==
    \A h \in DOMAIN txs :
        txs[h].commitedBlock # 0 =>
            /\ EonOf(txs[h].commitedBlock) <= txs[h].eon
            /\ EonOf(txs[h].commitedBlock) # txs[h].eon =>
                  \E s \in EonStart :
                      txs[h].commitedBlock < s /\ s <= txs[h].maxInclusionWindow

\* A key is not there without the status to show it, or a worker who is about
\* to write that status: no other goroutine takes the status back from under
\* the key handler, however late or often the key comes (msg_handler.go:58-59,
\* bidder.go:235, main.go:207).
KeyIsFollowed ==
    \A h \in DOMAIN txs :
        txs[h].decryptionKey =>
            \/ txs[h].status \in {"decrypted", "finalised"}
            \/ \E w \in Worker : h \in keyh[w].found

\* What src/README.md:91-92 says of the encryption: the eon is that of the block
\* the transaction is included in.
EonIsOfInclusion ==
    \A h \in DOMAIN txs :
        txs[h].commitedBlock # 0 => txs[h].eon = EonOf(txs[h].commitedBlock)

-----------------------------------------------------------------------------
(***************************************************************************)
(* Action properties                                                       *)
(***************************************************************************)

StatusOf(h) == txs[h].status

\* A status that bid creation writes replaces nothing but init, although the
\* write comes after the list was made and checks nothing: no commitment and
\* no key is overwritten (bidder.go:46-90, store.go:113).
OnlyWaitingIsBid ==
    [][\A h \in DOMAIN txs :
           StatusOf(h)' # StatusOf(h) /\ StatusOf(h)' \in {"bidsubmitted", "blocked"}
               => StatusOf(h) = "init"]_vars

\* What the keypers were told of a transaction stays true: neither its
\* identity nor the block it is committed for changes afterwards.
CommitmentIsFixed ==
    [][\A h \in DOMAIN txs :
           txs[h].identity \in gossip
               => /\ txs'[h].identity = txs[h].identity
                  /\ txs'[h].commitedBlock = txs[h].commitedBlock]_vars

\* A commitment is not thrown away: the status committed is left only when the
\* key comes, or when the bid it came from ends in an error after all.  This is
\* also so when the keypers could not be told of it, and no key can come
\* (main.go:202-243).
CommittedIsKept ==
    [][\A h \in DOMAIN txs :
           StatusOf(h) = "committed" /\ StatusOf(h)' # "committed"
               => \/ StatusOf(h)' = "decrypted"
                  \/ /\ StatusOf(h)' = "init"
                     /\ h \in bidder.hashes
                     /\ bidder.pc \in {"remark", "reset"}]_vars

\* No key is dropped on the way to its transaction.  A worker is done with a key
\* only when the one transaction it is for has it and is in the worker's hand,
\* and done with a transaction only when its status says decrypted: whatever
\* else the message carries (msg_handler.go:52-59).
KeyIsHandled ==
    [][\A w \in Worker, h \in DOMAIN txs :
           /\ txs[h].identity \in keyh[w].keys \ keyh'[w].keys
                 => txs'[h].decryptionKey /\ h \in keyh'[w].found
           /\ h \in keyh[w].found \ keyh'[w].found
                 => StatusOf(h)' = "decrypted"]_vars

\* The points a pass of the bid loop may still come to.
Ahead(pc) ==
    CASE pc = "idle"     -> {}
      [] pc = "classify" -> BidderPc \ {"classify"}
      [] pc = "block"    -> BidderPc \ {"classify", "block"}
      [] pc = "mark"     -> {"idle", "stream", "remark", "reset", "gossip"}
      [] pc = "stream"   -> {"idle", "remark", "reset", "gossip"}
      [] pc = "remark"   -> {"idle", "reset"}
      [] OTHER           -> {"idle"}

\* The commitments of the bid that the pass has still to receive, or to send on.
CommitmentsLeft ==
    IF bidder.pc = "stream" THEN Provider \ bidder.commitments ELSE bidder.commitments

\* A pass of the bid loop ends.  Each of its steps takes it on to a later point,
\* or leaves it where it is with fewer commitments to come, or as many and fewer
\* transactions to write: nothing in a pass is tried again, and a transaction
\* whose bid failed waits for the next tick (main.go:176-249, bidder.go:191-245).
\* While commitments come in, it is that a provider commits to a bid once which
\* leaves fewer of them: the code takes as many as the stream delivers.
PassesEnd ==
    [][\/ UNCHANGED bidder
       \/ bidder.pc = "idle" /\ bidder'.pc = "classify"
       \/ bidder'.pc \in Ahead(bidder.pc)
       \/ /\ bidder'.pc = bidder.pc
          /\ CommitmentsLeft' \subseteq CommitmentsLeft
          /\ CommitmentsLeft' = CommitmentsLeft
                => bidder'.pending \subseteq bidder.pending /\ bidder'.pending # bidder.pending]_vars

\* What src/README.md:54 says of the lifecycle: finalised is its last status.
FinalisedIsFinal ==
    [][\A h \in DOMAIN txs :
           StatusOf(h) = "finalised" => StatusOf(h)' = "finalised"]_vars

-----------------------------------------------------------------------------
(***************************************************************************)
(* Liveness                                                                *)
(***************************************************************************)

HasStatus(h, statuses) == h \in DOMAIN txs /\ txs[h].status \in statuses

\* A stored transaction whose window the chain passes is not bid for forever:
\* from some time on it is blocked, or committed or beyond (bidder.go:61-74).
EventuallySettled ==
    \A h \in Hash :
        (h \in DOMAIN txs /\ txs[h].maxInclusionWindow <= LastBlock)
            ~> []HasStatus(h, Settled \union {"blocked"})

\* The key of a committed transaction takes effect whenever it comes, and in
\* whatever message: the transaction becomes decrypted, or was verified by
\* then (msg_handler.go:52-59).
KeyTakesEffect ==
    \A h \in Hash :
        (h \in DOMAIN txs /\ \E w \in Worker : txs[h].identity \in keyh[w].keys)
            ~> HasStatus(h, {"decrypted", "finalised"})

\* A decrypted transaction that is on the chain is finalised at some time,
\* once the chain has reached the block it was committed for, whatever keys
\* come again meanwhile (verifier.go:88-131, store.go:234).
OnChainIsFinalised ==
    \A h \in Hash :
        (HasStatus(h, {"decrypted"}) /\ h \in onChain /\ txs[h].commitedBlock <= LastBlock)
            ~> HasStatus(h, {"finalised"})

\* What src/README.md:78 and 145 say of the verifier: a decrypted transaction that
\* is never found on the chain is blocked in the end.
UnverifiedIsBlocked ==
    \A h \in Hash :
        HasStatus(h, {"decrypted"}) ~> HasStatus(h, {"finalised", "blocked"})

=============================================================================
