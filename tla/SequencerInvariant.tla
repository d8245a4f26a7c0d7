------------------------- MODULE SequencerInvariant ------------------------
(***************************************************************************)
(* The inductive invariant behind the safety properties of Sequencer: what *)
(* each goroutine may rely on between two of its accesses to the store.    *)
(***************************************************************************)
EXTENDS Sequencer

\* Only a transaction whose commitment was sent to the keypers has its key,
\* and such a transaction is committed for some block for good.
GossipInv ==
    \A h \in DOMAIN txs :
        /\ txs[h].identity \in gossip
              => txs[h].status \in Settled /\ txs[h].commitedBlock # 0
        /\ txs[h].decryptionKey => txs[h].identity \in gossip
        /\ txs[h].status \in {"decrypted", "finalised"} => txs[h].decryptionKey

\* The statuses the transactions of the current bid can have at each point.
BidStatuses ==
    /\ bidder.pc = "block" =>
          /\ \A h \in bidder.hashes \union bidder.pending : StatusOf(h) = "init"
          /\ bidder.hashes \intersect bidder.pending = {}
    /\ bidder.pc = "mark" =>
          /\ \A h \in bidder.pending : StatusOf(h) = "init"
          /\ \A h \in bidder.hashes \ bidder.pending : StatusOf(h) = "bidsubmitted"
    /\ bidder.pc = "stream" =>
          /\ bidder.commitments = {} =>
                \A h \in bidder.hashes : StatusOf(h) = "bidsubmitted"
          /\ \A h \in bidder.pending : StatusOf(h) \in {"bidsubmitted", "committed"}
          /\ bidder.commitments # {} =>
                \A h \in bidder.hashes \ bidder.pending :
                    StatusOf(h) = "committed" /\ txs[h].commitedBlock = bidder.block
    /\ bidder.pc \in {"remark", "reset"} =>
          /\ \A h \in bidder.pending : StatusOf(h) \in {"init", "bidsubmitted", "committed"}
          /\ \A h \in bidder.hashes \ bidder.pending : StatusOf(h) = "init"
    /\ bidder.pc = "gossip" =>
          \A h \in bidder.hashes :
              StatusOf(h) \in Settled /\ txs[h].commitedBlock = bidder.block

\* The bid loop's transactions are stored ones.  The types depend on it: the
\* identities of a bid are read from the store.
BidsAreStored == bidder.hashes \union bidder.pending \subseteq DOMAIN txs

\* What the locals of the bid loop hold at each point.
BidLocals ==
    /\ bidder.pc \in {"idle", "classify"} => bidder.hashes = {} /\ bidder.pending = {}
    /\ bidder.pc \in BidOpen => bidder.pending \subseteq bidder.hashes
    /\ bidder.pc = "stream" /\ bidder.commitments = {} => bidder.pending = {}
    /\ bidder.pc \in {"idle", "classify", "block", "mark"} => bidder.commitments = {}
    /\ bidder.pc \in BidOpen \union {"gossip"} =>
          bidder.identities = {txs[h].identity : h \in bidder.hashes}
    /\ bidder.pc # "idle" => bidder.block # 0
    /\ \A h \in bidder.hashes : bidder.block <= txs[h].maxInclusionWindow

\* Until a bid is won, the keypers know of none of its transactions.
BidUnknown ==
    bidder.pc # "gossip" =>
        \A h \in bidder.hashes \union bidder.pending : txs[h].identity \notin gossip

\* A key in hand is that of a commitment sent, or another bidder's.
KeyInv ==
    \A w \in Worker :
        /\ keyh[w].keys \subseteq Released
        /\ \A h \in keyh[w].found : h \in DOMAIN txs /\ txs[h].decryptionKey

\* What the verifier read is still so, and due.
VerifierInv ==
    /\ verifier.block <= block
    /\ \A h \in verifier.pending \union verifier.found :
          txs[h].commitedBlock <= block
    /\ verifier.found \subseteq onChain

\* The eon and the window of a transaction are those of one block, also while its
\* request waits for the upstream node between choosing and storing them.  With
\* CommittedWithinWindow it gives EonIsNotPast.
EonsInHand ==
    /\ \A r \in Request : rpc[r].pc = "store" => rpc[r].eon = EonOf(rpc[r].window)
    /\ \A h \in DOMAIN txs : txs[h].eon = EonOf(txs[h].maxInclusionWindow)

\* The inductive invariant: all the above and the properties it implies.
Inductive ==
    /\ TypeOK
    /\ BidsAreStored
    /\ ReplyIsKept
    /\ GossipedFindable
    /\ GossipInv
    /\ CommittedWithinWindow
    /\ FinalisedIsOnChain
    /\ VerifierListIsCurrent
    /\ NoStrandedBid
    /\ BidStatuses
    /\ BidLocals
    /\ BidUnknown
    /\ KeyInv
    /\ VerifierInv

\* A worker has one transaction in hand at a time.
OneFound == \A w \in Worker : \A g, h \in keyh[w].found : g = h

\* What the properties of the eons and of the keys in hand need beside Inductive.
StrongInductive ==
    /\ Inductive
    /\ EonsInHand
    /\ OneFound
    /\ KeyIsFollowed

=============================================================================
