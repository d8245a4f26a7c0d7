---------------------------- MODULE Environment ----------------------------
(***************************************************************************)
(* What surrounds the sequencer and is not part of it, modelled from how   *)
(* the code uses it: the Ethereum chain behind the upstream RPC endpoint,  *)
(* and the keypers behind the p2p network.                                 *)
(***************************************************************************)
EXTENDS TxStore

CONSTANTS
    LastBlock,  \* bound: the chain stops growing here
    EonStart,   \* the blocks from which a new keyper set is in charge
    Foreign     \* identities of other bidders whose keys are broadcast too

VARIABLES
    block,      \* the number of the chain's latest block
    onChain,    \* the hashes of the transactions that have a receipt
    gossip      \* the identities of the commitments the keypers were sent

ASSUME LastBlockAssumption == LastBlock \in Nat
ASSUME EonStartAssumption == EonStart \subseteq Nat /\ IsFiniteSet(EonStart)
ASSUME ForeignAssumption == Foreign \intersect Identity = {}

envVars == <<block, onChain, gossip>>

EnvironmentOK ==
    /\ block \in Nat
    /\ onChain \subseteq Hash
    /\ gossip \subseteq Identity

InitEnvironment ==
    /\ block = 0
    /\ onChain = {}
    /\ gossip = {}

\* A block is added to the chain, with any transactions in it; the chain is
\* not reorganised.
Mine ==
    /\ block < LastBlock
    /\ block' = block + 1
    /\ \E included \in SUBSET (Hash \ onChain) : onChain' = onChain \union included
    /\ UNCHANGED <<txs, gossip>>

\* KeyperSetManager.getKeyperSetIndexByBlock: the eon of a block.
EonOf(b) == Cardinality({s \in EonStart : s <= b})

\* The identities whose keys the keypers may broadcast: those of commitments
\* they were sent, and other bidders'.  A key may be broadcast any number of
\* times (every keyper sends the keys it has) and in any company.
Released == gossip \union Foreign

=============================================================================
