-------------------------------- MODULE SPInfo --------------------------------
(***************************************************************************)
(* The property registry CMPSPInfo of sp.cpp: a LevelDB database with one  *)
(* current entry per property ('s' keys), the entry each updating block    *)
(* displaced ('b' keys), an index from creating transactions to            *)
(* identifiers ('t' keys) and the hash of the last block saved ('B', the   *)
(* watermark).  Every write is one synced batch, hence one step.  The      *)
(* operators below map a database to a database; next_spid, the counter    *)
(* kept in memory, belongs to the modules that use them.                   *)
(***************************************************************************)
EXTENDS Naturals

CONSTANTS
  Block,       \* blocks, by hash
  Tx,          \* transactions, by hash
  Issuer,      \* addresses that manage properties
  None,        \* "not found", and the null hash
  \* bounds
  MaxId        \* the largest identifier given out

\* init(uint32_t nextSPID = 0x3UL)
FirstId == 3
Id == FirstId .. MaxId

\* CMPSPInfo::Entry, reduced to what a grant and a rollback look at
TxHash == Tx \cup {None}
BlockHash == Block \cup {None}
Entry == [txid : TxHash, issuer : Issuer, manual : BOOLEAN,
          creation_block : BlockHash, update_block : BlockHash]

ASSUME SPInfoAssumption ==
  MaxId \in Nat /\ MaxId >= FirstId /\ None \notin Entry \cup Block \cup Tx

Database == [s : [Id -> Entry \cup {None}],
             b : [BlockHash \X Id -> Entry \cup {None}],
             t : [TxHash -> Id \cup {None}],
             watermark : BlockHash]

\* Clear(): the empty database
EmptyDatabase == [s |-> [id \in Id |-> None],
                  b |-> [k \in BlockHash \X Id |-> None],
                  t |-> [x \in TxHash |-> None],
                  watermark |-> None]

\* An identifier already in use keeps its entry.
putSP_kept(d, id, info) ==
  [d EXCEPT !.s[id] = IF @ = None THEN info ELSE @, !.t[info.txid] = id]

\* putSP.  An identifier or a transaction already in use is only logged.
putSP(d, id, info) == [d EXCEPT !.s[id] = info, !.t[info.txid] = id]

\* updateSP: the value displaced is kept under the block of the new one.
updateSP(d, id, info) ==
  [d EXCEPT !.b[<<info.update_block, id>>] = d.s[id], !.s[id] = info]

\* The entries a block was the last to write.
TouchedBy(d, blk) ==
  {id \in Id : d.s[id] # None /\ d.s[id].update_block = blk}

\* popBlock gives -3 if an entry has no earlier value to go back to.
popBlockFails(d, blk) ==
  \E id \in TouchedBy(d, blk) :
     /\ d.s[id].creation_block # blk
     /\ d.b[<<blk, id>>] = None

\* popBlock: forget what the block created, undo what it updated.
popBlock(d, blk) ==
  LET touched == TouchedBy(d, blk)
      created == {id \in touched : d.s[id].creation_block = blk}
  IN  [d EXCEPT
        !.s = [id \in Id |-> IF id \in created THEN None
                             ELSE IF id \in touched THEN d.b[<<blk, id>>]
                             ELSE d.s[id]],
        !.t = [x \in TxHash |->
                 IF \E id \in created : d.s[id].txid = x THEN None ELSE d.t[x]],
        !.b = [k \in BlockHash \X Id |->
                 IF k[1] = blk /\ k[2] \in touched \ created THEN None
                 ELSE d.b[k]]]

setWatermark(d, blk) == [d EXCEPT !.watermark = blk]
=============================================================================
