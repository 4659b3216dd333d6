---------------------------- MODULE Transaction ----------------------------
(***************************************************************************)
(* One Transaction object that is not chunked: its transaction IDs, node   *)
(* accounts, signers and signed bodies, and what its methods, a batch that *)
(* takes it and the attempts of Execute do to them in any order an         *)
(* application may choose.                                                 *)
(*                                                                         *)
(* A body is the node account, the transaction ID, the memo and whether it *)
(* has the batch key; the memo stands for the fields that setters may      *)
(* change at any time.  A signature is a key and the body it was made      *)
(* over.  Transaction IDs are numbers: 0 is an ID of another payer, the    *)
(* others are generated for the operator.                                  *)
(* The answers of the network are left open (see Execute).                 *)
(***************************************************************************)
EXTENDS Naturals, SequencesExt

CONSTANTS
  Node,             \* node accounts
  Key,              \* public keys
  Operator,         \* the key of the client's operator
  Memo,             \* values of the fields set by setters
  BatchNode,        \* account 0.0.0, the node of transactions in a batch
  Usages,           \* ways to use the object: methods, and bounds for IDs and signatures
  LateChanges,      \* whether it also calls setters once the transaction is frozen
  ClientDefault,    \* client.defaultRegenerateTransactionIDs
  MaxAccounts       \* bound: node accounts set

ASSUME OperatorAssumption == Operator \in Key
ASSUME NodeAssumption == BatchNode \notin Node
ASSUME FlagAssumption == {LateChanges, ClientDefault} \subseteq BOOLEAN
ASSUME BoundAssumption == MaxAccounts \in Nat /\ \A u \in Usages : {u.ids, u.signatures} \subseteq Nat

VARIABLES
  usage,     \* the way the application uses the object
  tx,        \* the object
  made,      \* IDs generated so far
  request,   \* the request on its way, or NoRequest
  running,   \* whether Execute runs
  panic,     \* the run-time panic that has happened, or "none"
  wanted,    \* what the application asked for with SetRegenerateTransactionID
  added,     \* keys of signatures added and not removed since
  removed,   \* keys removed and not used to sign since
  batched    \* whether a batch has taken the transaction

vars == <<tx, made, request, running, panic, wanted, added, removed, batched, usage>>

NoRequest == [node |-> "none"]
Body == [node : Node \cup {BatchNode}, id : Nat, memo : Memo, batch : BOOLEAN]
Signature == [key : Key, over : Body]
LockableSlice(S) == [slice : Seq(S), index : Nat, locked : BOOLEAN]

NewSlice == [slice |-> << >>, index |-> 0, locked |-> FALSE]
Current(ls) == ls.slice[ls.index + 1]
\* Only called on slices that are not empty.
Advance(ls) == [ls EXCEPT !.index = (@ + 1) % Len(ls.slice)]
Locked(ls) == [ls EXCEPT !.locked = TRUE]

Frozen == tx.signed # << >>

Init ==
  /\ usage \in Usages
  /\ tx = [ids |-> NewSlice, nodes |-> NewSlice, signed |-> << >>, keys |-> << >>, batchKey |-> FALSE,
           memo |-> CHOOSE m \in Memo : TRUE, regenerate |-> TRUE, freezeError |-> FALSE]
  /\ made = 0
  /\ request = NoRequest
  /\ running = FALSE
  /\ panic = "none"
  /\ wanted = TRUE
  /\ added = {}
  /\ removed = {}
  /\ batched = FALSE
-----------------------------------------------------------------------------
(* Building and signing *)

HasKey(k) == \E i \in DOMAIN tx.keys : tx.keys[i].key = k

\* The bookkeeping entries whose key made the first signature of s and can sign.
FirstSigners(t, s) ==
  {i \in DOMAIN t.keys : s.sigs # << >> /\ t.keys[i].signer /\ t.keys[i].key = s.sigs[1].key}

\* The first signature is compared with what the first signer makes of the body.
CallsFirstSigner(t, s) == t.regenerate /\ FirstSigners(t, s) # {}

\* Faulty variant of SignedAlready: the first signature is not compared with the body.
SignedByFirst(t, s) == FirstSigners(t, s) # {}

\* The early returns of _SignTransaction.
SignedAlready(t, s) ==
  /\ FirstSigners(t, s) # {}
  /\ \/ ~t.regenerate
     \/ s.sigs[1] = [key |-> t.keys[1].key, over |-> s.body]

\* Faulty variant of KeptSignatures: the signatures over the old body are kept.
KeptAlways(t, s) == s.sigs

\* The signatures that _SignTransaction starts from.
KeptSignatures(t, s) == IF t.regenerate /\ ~t.ids.locked THEN << >> ELSE s.sigs

\* Every entry with a signer signs the body.
NewSignatures(t, s) ==
  LET signers == SelectSeq(t.keys, LAMBDA e : e.signer)
  IN [i \in DOMAIN signers |-> [key |-> signers[i].key, over |-> s.body]]

SignTransaction(t, s) ==
  IF SignedAlready(t, s) THEN s
  ELSE [s EXCEPT !.sigs = KeptSignatures(t, s) \o NewSignatures(t, s)]

UpdatedBody(t, s) == [s.body EXCEPT !.id = Current(t.ids), !.memo = t.memo, !.batch = @ \/ t.batchKey]

\* The body is unchanged and has as many signatures as there are keys.
Reused(t, s) == UpdatedBody(t, s) = s.body /\ s.sigs # << >> /\ Len(s.sigs) = Len(t.keys)

\* _BuildTransaction of the i-th signed transaction.
BuildTransaction(t, i) ==
  LET s == t.signed[i]
  IN IF Reused(t, s) THEN t
     ELSE [t EXCEPT !.signed[i] = SignTransaction(t, [s EXCEPT !.body = UpdatedBody(t, s)])]

\* Building calls the first signer although that entry has none.
CallsNilSigner(t, i) ==
  /\ ~Reused(t, t.signed[i]) /\ CallsFirstSigner(t, t.signed[i])
  /\ ~t.keys[1].signer

\* _BuildAllTransactions: the transaction ID advances with every one.
BuildAllTransactions(t) ==
  FoldLeftDomain(LAMBDA u, i : [BuildTransaction(u, i) EXCEPT !.ids = Advance(@)], t, t.signed)

CanSignMore == \A i \in DOMAIN tx.signed : Len(tx.signed[i].sigs) <= usage.signatures
-----------------------------------------------------------------------------
(* Setters.  None of them checks whether the transaction is frozen. *)

\* The application may call method m now.
May(m) == ~running /\ request = NoRequest /\ panic = "none" /\ m \in usage.calls

Settable == ~Frozen \/ LateChanges
history == <<request, running, panic, wanted, added, removed, batched, usage>>

\* _Clear panics when the IDs are locked; the index is left as it is.
SetTransactionID ==
  /\ May("SetTransactionID") /\ Settable /\ ~tx.ids.locked
  /\ \E i \in {0} \cup ({made + 1} \cap 1..usage.ids) :
       /\ tx' = [tx EXCEPT !.ids.slice = <<i>>, !.ids.locked = TRUE]
       /\ made' = IF i = 0 THEN made ELSE i
  /\ UNCHANGED history

\* The lists of accounts an application passes.
NodeLists == UNION {SetToSeqs(S) : S \in SUBSET Node \ {{}}}

\* _Push panics when the accounts are locked; otherwise it adds to them.
SetNodeAccountIDs ==
  /\ May("SetNodeAccountIDs") /\ Settable /\ ~tx.nodes.locked
  /\ \E l \in NodeLists :
       /\ Len(tx.nodes.slice) + Len(l) <= MaxAccounts
       /\ tx' = [tx EXCEPT !.nodes.slice = @ \o l, !.nodes.locked = TRUE]
  /\ UNCHANGED <<made, history>>

\* Also for SetMaxTransactionFee and SetHighVolume.
SetTransactionMemo ==
  /\ May("SetTransactionMemo") /\ Settable
  /\ \E m \in Memo : tx' = [tx EXCEPT !.memo = m]
  /\ UNCHANGED <<made, history>>

SetRegenerateTransactionID ==
  /\ May("SetRegenerateTransactionID") /\ Settable
  /\ wanted' \in BOOLEAN
  /\ tx' = [tx EXCEPT !.regenerate = wanted']
  /\ UNCHANGED <<made, request, running, panic, added, removed, batched, usage>>
-----------------------------------------------------------------------------
(* Freezing *)

\* The object frozen for an ID and accounts, which a batch key replaces.  The bodies
\* are given the batch key when they are built.
FrozenWith(t, ids, nodes) ==
  LET accounts == IF t.batchKey THEN [nodes EXCEPT !.slice = <<BatchNode>>, !.locked = TRUE] ELSE nodes
  IN [t EXCEPT !.ids = ids, !.nodes = accounts,
        !.signed = [i \in DOMAIN accounts.slice |->
          [body |-> [node |-> accounts.slice[i], id |-> Current(ids), memo |-> t.memo, batch |-> FALSE],
           sigs |-> << >>]]]

\* The objects FreezeWith(client) can leave when i is the next ID to generate.
Freezings(i) ==
  IF Frozen THEN {tx}
  ELSE LET ids == IF tx.ids.slice = << >> THEN [NewSlice EXCEPT !.slice = <<i>>] ELSE tx.ids
           accounts == IF tx.nodes.slice # << >> THEN {tx.nodes}
                       ELSE {[tx.nodes EXCEPT !.slice = l] : l \in SetToSeqs(Node)}
       IN {[FrozenWith(tx, ids, a) EXCEPT !.regenerate = ClientDefault] : a \in accounts}

\* IDs generated by FreezeWith(client).
GeneratedIDs == IF tx.ids.slice = << >> THEN made + 1 ELSE made

FreezeWith ==
  /\ May("FreezeWith") /\ ~Frozen /\ GeneratedIDs <= usage.ids
  /\ tx' \in Freezings(GeneratedIDs)
  /\ made' = GeneratedIDs
  /\ UNCHANGED history

\* Freeze() needs an ID and accounts and leaves the regeneration flag alone.
Freeze ==
  /\ May("Freeze") /\ ~Frozen /\ tx.ids.slice # << >> /\ tx.nodes.slice # << >>
  /\ tx' = FrozenWith(tx, tx.ids, tx.nodes)
  /\ UNCHANGED <<made, history>>
-----------------------------------------------------------------------------
(* Signatures *)

\* SignWith and Sign on t.
SignedWith(t, k) ==
  LET u == [t EXCEPT !.freezeError = @ \/ t.signed = << >>]
  IN IF \E i \in DOMAIN t.keys : t.keys[i].key = k THEN u
     ELSE [u EXCEPT !.keys = Append(@, [key |-> k, signer |-> TRUE])]

Sign ==
  /\ May("Sign")
  /\ \E k \in Key : tx' = SignedWith(tx, k) /\ removed' = removed \ {k}
  /\ UNCHANGED <<made, request, running, panic, wanted, added, batched, usage>>

SignatureOf(k, s) == [key |-> k, over |-> s.body]
AddedTo(s, k) == [s EXCEPT !.sigs = Append(@, SignatureOf(k, s))]
WithoutSigner(k) == [key |-> k, signer |-> FALSE]

\* A signature the application made over the body; panics unless there is one account.
AddSignature ==
  /\ May("AddSignature") /\ Frozen /\ Len(tx.nodes.slice) = 1
  /\ \E k \in Key :
       /\ ~HasKey(k)
       /\ tx' = [tx EXCEPT !.keys = Append(@, WithoutSigner(k)), !.ids = Locked(@),
                           !.signed = [i \in DOMAIN @ |-> AddedTo(@[i], k)]]
       /\ added' = added \cup {k}
       /\ removed' = removed \ {k}
  /\ UNCHANGED <<made, request, running, panic, wanted, batched, usage>>

HasSigned(s, k) == \E i \in DOMAIN s.sigs : s.sigs[i].key = k

\* The same for the body of one node; one more entry for the key each time.
AddSignatureV2 ==
  /\ May("AddSignatureV2") /\ Frozen
  /\ \E k \in Key, i \in DOMAIN tx.signed :
       /\ tx' = IF HasSigned(tx.signed[i], k) THEN [tx EXCEPT !.ids = Locked(@)]
                ELSE [tx EXCEPT !.keys = Append(@, WithoutSigner(k)), !.ids = Locked(@),
                                !.signed[i] = AddedTo(@, k)]
       /\ removed' = removed \ {k}
  /\ UNCHANGED <<made, request, running, panic, wanted, added, batched, usage>>

\* Faulty variant of WithoutKey: the key stays among the signers.
KeyStaysSigner(t, k) ==
  [t EXCEPT !.ids = Locked(@),
            !.signed = [i \in DOMAIN @ |-> [@[i] EXCEPT !.sigs = SelectSeq(@, LAMBDA g : g.key # k)]]]

\* What RemoveSignature leaves of t.
WithoutKey(t, k) ==
  [t EXCEPT !.ids = Locked(@), !.keys = SelectSeq(@, LAMBDA e : e.key # k),
            !.signed = [i \in DOMAIN @ |-> [@[i] EXCEPT !.sigs = SelectSeq(@, LAMBDA g : g.key # k)]]]

RemoveSignature ==
  /\ May("RemoveSignature") /\ Frozen
  /\ \E k \in Key :
       /\ HasKey(k) \/ \E i \in DOMAIN tx.signed : HasSigned(tx.signed[i], k)
       /\ tx' = WithoutKey(tx, k)
       /\ added' = added \ {k}
       /\ removed' = removed \cup {k}
  /\ UNCHANGED <<made, request, running, panic, wanted, batched, usage>>

RemoveAllSignatures ==
  /\ May("RemoveAllSignatures") /\ Frozen
  /\ tx' = [tx EXCEPT !.ids = Locked(@), !.keys = << >>,
                      !.signed = [i \in DOMAIN @ |-> [@[i] EXCEPT !.sigs = << >>]]]
  /\ added' = {}
  /\ removed' = Key
  /\ UNCHANGED <<made, request, running, panic, wanted, batched, usage>>
-----------------------------------------------------------------------------
(* Methods that build *)

\* t is what building leaves, unless it calls a signer that is not there.
Builds(t, S) ==
  IF \E i \in S : CallsNilSigner(tx, i) THEN panic' = "nil signer" /\ UNCHANGED tx
  ELSE tx' = t /\ UNCHANGED panic

\* Also for GetTransactionSize.
GetTransactionHash ==
  /\ May("GetTransactionHash") /\ Frozen /\ CanSignMore
  /\ Builds(BuildTransaction(tx, 1), {1})
  /\ UNCHANGED <<made, request, running, wanted, added, removed, batched, usage>>

\* Also for GetTransactionHashPerNode.
ToBytes ==
  /\ May("ToBytes") /\ Frozen /\ CanSignMore
  /\ Builds([BuildAllTransactions(tx) EXCEPT !.ids = Locked(@)], DOMAIN tx.signed)
  /\ UNCHANGED <<made, request, running, wanted, added, removed, batched, usage>>

\* Panics when accounts were set after freezing.
GetSignatures ==
  /\ May("GetSignatures") /\ Frozen /\ Len(tx.nodes.slice) <= Len(tx.signed)
  /\ tx' = [tx EXCEPT !.ids = Locked(@)]
  /\ UNCHANGED <<made, history>>

\* What TransactionFromBytes makes of the bytes of a frozen transaction: an ID and
\* an account for every body of the list, unless it is 0.0.0, and the keys of the first
\* body's signatures.
Restored(t) ==
  [ids |-> [slice |-> [i \in DOMAIN t.signed |-> t.signed[i].body.id], index |-> 0, locked |-> TRUE],
   nodes |-> [slice |-> SelectSeq([i \in DOMAIN t.signed |-> t.signed[i].body.node], LAMBDA n : n # BatchNode),
              index |-> 0, locked |-> TRUE],
   signed |-> t.signed, batchKey |-> t.signed[1].body.batch,
   keys |-> [i \in DOMAIN t.signed[1].sigs |-> WithoutSigner(t.signed[1].sigs[i].key)],
   memo |-> t.memo, regenerate |-> TRUE, freezeError |-> FALSE]

\* ToBytes, then TransactionFromBytes.
FromBytes ==
  /\ May("FromBytes") /\ Frozen /\ CanSignMore
  /\ Builds(Restored(BuildAllTransactions(tx)), DOMAIN tx.signed)
  /\ wanted' = TRUE
  /\ UNCHANGED <<made, request, running, added, removed, batched, usage>>

\* The same for a transaction that is not frozen.  Its bodies carry transactionID,
\* which only freezing sets, so no ID comes back, and no batch key.
FromUnfrozenBytes ==
  /\ May("FromUnfrozenBytes") /\ ~Frozen
  /\ tx' = [ids |-> NewSlice, nodes |-> [NewSlice EXCEPT !.slice = tx.nodes.slice],
            signed |-> << >>, keys |-> << >>, batchKey |-> FALSE,
            memo |-> tx.memo, regenerate |-> TRUE, freezeError |-> FALSE]
  /\ wanted' = TRUE
  /\ UNCHANGED <<made, request, running, panic, added, removed, batched, usage>>
-----------------------------------------------------------------------------
(* Execute *)

\* Up to the loop: freeze if need be, and let the operator sign if it pays.
Execute ==
  /\ May("Execute") /\ ~tx.freezeError /\ (Frozen \/ GeneratedIDs <= usage.ids)
  /\ \E t \in Freezings(GeneratedIDs) :
       IF Current(t.ids) = 0 THEN tx' = t /\ UNCHANGED removed
       ELSE tx' = SignedWith(t, Operator) /\ removed' = removed \ {Operator}
  /\ made' = IF Frozen THEN made ELSE GeneratedIDs
  /\ running' = TRUE
  /\ UNCHANGED <<request, panic, wanted, added, batched, usage>>

\* The signed transaction that makeRequest builds, counted from 1.
RequestIndex == Len(tx.nodes.slice) * tx.ids.index + tx.nodes.index + 1

\* makeRequest for a node; what it builds is sent there, or not sent.
Makes(node, sent) ==
  /\ CanSignMore
  /\ IF RequestIndex > Len(tx.signed)
     THEN panic' = "index" /\ UNCHANGED <<tx, request>>
     ELSE /\ Builds(BuildTransaction(tx, RequestIndex), {RequestIndex})
          /\ request' = IF panic' = "none" /\ sent
                        THEN [node |-> node, body |-> tx'.signed[RequestIndex].body,
                              sigs |-> tx'.signed[RequestIndex].sigs]
                        ELSE NoRequest

\* Faulty variant of IsBatchedAndNotBatchTransaction: nobody asks.
IsBatchedNever == FALSE

IsBatchedAndNotBatchTransaction == tx.batchKey

\* An attempt: the request is made, and then not sent if it belongs into a batch.
MakeRequest ==
  /\ running /\ request = NoRequest
  /\ Makes(IF tx.nodes.slice = << >> THEN BatchNode ELSE Current(tx.nodes), ~IsBatchedAndNotBatchTransaction)
  /\ running' = (panic' = "none" /\ ~IsBatchedAndNotBatchTransaction)
  /\ UNCHANGED <<made, wanted, added, removed, batched, usage>>

Answered == running /\ request # NoRequest /\ request' = NoRequest

\* executionStateRetry: another attempt at the same node.
Retry == Answered /\ UNCHANGED <<tx, made, running, panic, wanted, added, removed, batched, usage>>

\* advanceRequest; the index of signedTransactions is never read.
AdvanceRequest ==
  /\ Answered
  /\ tx' = [tx EXCEPT !.nodes = Advance(@)]
  /\ UNCHANGED <<made, running, panic, wanted, added, removed, batched, usage>>

\* Faulty variant of CanRegenerate: a locked ID is regenerated too.
CanRegenerateLocked == tx.regenerate

CanRegenerate == tx.regenerate /\ ~tx.ids.locked

\* regenerateID of ids, when it takes effect.
RegeneratedID(ids) == [ids EXCEPT !.slice[ids.index + 1] = made + 1]

Expired ==
  /\ Answered
  /\ IF CanRegenerate
     THEN made < usage.ids /\ made' = made + 1 /\ tx' = [tx EXCEPT !.ids = RegeneratedID(@)] /\ UNCHANGED running
     ELSE running' = FALSE /\ UNCHANGED <<tx, made>>
  /\ UNCHANGED <<panic, wanted, added, removed, batched, usage>>

\* Execute returns an error.
Fail == Answered /\ running' = FALSE /\ UNCHANGED <<tx, made, panic, wanted, added, removed, batched, usage>>

\* mapResponse advances the ID; Execute regenerates it for the next time.
Succeed ==
  /\ Answered /\ running' = FALSE
  /\ IF CanRegenerate
     THEN made < usage.ids /\ made' = made + 1 /\ tx' = [tx EXCEPT !.ids = RegeneratedID(Advance(@))]
     ELSE UNCHANGED made /\ tx' = [tx EXCEPT !.ids = Advance(@)]
  /\ UNCHANGED <<panic, wanted, added, removed, batched, usage>>

-----------------------------------------------------------------------------
(* Batches *)

SetBatchKey ==
  /\ May("SetBatchKey")
  /\ tx' = IF Frozen THEN [tx EXCEPT !.freezeError = TRUE] ELSE [tx EXCEPT !.batchKey = TRUE]
  /\ UNCHANGED <<made, history>>

\* Batchify sets the key, freezes, and lets the operator sign.
Batchify ==
  /\ May("Batchify") /\ ~Frozen /\ GeneratedIDs <= usage.ids
  /\ \E t \in Freezings(GeneratedIDs) :
       tx' = SignedWith(FrozenWith([t EXCEPT !.batchKey = TRUE], t.ids, t.nodes), Operator)
  /\ made' = GeneratedIDs
  /\ removed' = removed \ {Operator}
  /\ UNCHANGED <<request, running, panic, wanted, added, batched, usage>>

\* AddInnerTransaction of a batch, which refuses the others.
AddInnerTransaction ==
  /\ May("AddInnerTransaction") /\ Frozen /\ tx.batchKey
  /\ batched' = TRUE
  /\ UNCHANGED <<tx, made, request, running, panic, wanted, added, removed, usage>>

\* The batch is frozen: its body gets what makeRequest of the transaction builds.
BuildProtoBody ==
  /\ May("BuildProtoBody") /\ batched
  /\ Makes(BatchNode, TRUE)
  /\ UNCHANGED <<made, running, wanted, added, removed, batched, usage>>

\* The batch goes its own way.
BatchFrozen ==
  /\ ~running /\ request # NoRequest
  /\ request' = NoRequest
  /\ UNCHANGED <<tx, made, running, panic, wanted, added, removed, batched, usage>>

\* The application ends, at its own choice, by a panic or at the bound.
End == (~running \/ ~CanSignMore) /\ UNCHANGED vars

Next ==
  \/ SetTransactionID \/ SetNodeAccountIDs \/ SetTransactionMemo \/ SetRegenerateTransactionID
  \/ FreezeWith \/ Freeze
  \/ Sign \/ AddSignature \/ AddSignatureV2 \/ RemoveSignature \/ RemoveAllSignatures
  \/ GetTransactionHash \/ ToBytes \/ GetSignatures \/ FromBytes \/ FromUnfrozenBytes
  \/ Execute \/ MakeRequest \/ Retry \/ AdvanceRequest \/ Expired \/ Fail \/ Succeed
  \/ SetBatchKey \/ Batchify \/ AddInnerTransaction \/ BuildProtoBody \/ BatchFrozen
  \/ End

Spec == Init /\ [][Next]_vars
-----------------------------------------------------------------------------
(* Properties *)

\* Type invariant.
TypeOK ==
  /\ tx.ids \in LockableSlice(0..usage.ids)
  /\ tx.nodes \in LockableSlice(Node \cup {BatchNode})
  /\ tx.signed \in Seq([body : Body, sigs : Seq(Signature)])
  /\ tx.keys \in Seq([key : Key, signer : BOOLEAN])
  /\ tx.memo \in Memo
  /\ {tx.regenerate, tx.freezeError, tx.batchKey, running, wanted, batched} \subseteq BOOLEAN
  /\ made \in 0..usage.ids
  /\ panic \in {"none", "index", "nil signer"}
  /\ added \subseteq Key /\ removed \subseteq Key
  /\ \A ls \in {tx.ids, tx.nodes} : ls.slice # << >> => ls.index < Len(ls.slice)

Sent == request # NoRequest

\* Signatures are made by the SDK alone, for this object.
OnlyTheSDKSigns == usage.calls \cap {"AddSignature", "AddSignatureV2", "GetSignatures", "FromBytes"} = {}

\* Where the SDK makes all signatures, no body carries two of one key, whatever is
\* retried, regenerated, executed again or put into a batch (_SignTransaction).
NoKeySignsTwice ==
  OnlyTheSDKSigns /\ Sent
    => \A i, j \in DOMAIN request.sigs : request.sigs[i].key = request.sigs[j].key => i = j

\* CHANGELOG, 2.21.0: "Signs more than once per node/transaction" is fixed.
SignsOncePerTransaction ==
  Sent => \A i, j \in DOMAIN request.sigs : request.sigs[i].key = request.sigs[j].key => i = j

\* The body of a request names the node it is sent to: the index that makeRequest
\* computes and the account that _Execute looks up move together.  Where the SDK makes
\* all signatures, every one of a request was made over the body that is sent, though
\* IDs, fields and the batch key change the body after signing.
RequestMatchesBody ==
  Sent =>
    /\ request.body.node = request.node
    /\ OnlyTheSDKSigns => \A i \in DOMAIN request.sigs : request.sigs[i].over = request.body

\* transaction.go: bodies are kept "so existing signatures stay valid".
SignaturesStayValid ==
  Sent => \A i \in DOMAIN request.sigs : request.sigs[i].over = request.body

\* Every key that was given to Sign, and the operator's, has signed the request.
EverySignerSigns ==
  Sent => \A e \in ToSet(tx.keys) : e.signer => \E i \in DOMAIN request.sigs : request.sigs[i].key = e.key

\* A signature from outside, which could not be made again, stays with the request
\* until it is removed: the IDs are locked, so no build drops it.  A removed signature
\* does not come back by itself: no later build or attempt carries a signature of a
\* key that was removed and has not signed again.
SignaturesAreAsAsked ==
  Sent => LET keys == {s.key : s \in ToSet(request.sigs)}
          IN added \subseteq keys /\ keys \cap removed = {}

\* A locked transaction ID (set by the application, or shown to it with the bytes
\* or the signatures) is the ID of every later body, once the object is frozen.
LockedIDIsKept ==
  [][tx.ids.locked /\ tx.ids.slice # << >> /\ tx'.signed # << >>
       => Current(tx'.ids) = Current(tx.ids)]_vars

\* transaction.go: of a transaction that is not frozen, the ID is left empty "if the
\* transaction was serialised, without setting" it.
SetIDIsSerialised ==
  [][tx.ids.locked /\ tx.ids.slice # << >>
       => tx'.ids.slice # << >> /\ Current(tx'.ids) = Current(tx.ids)]_vars

\* A transaction that a batch has taken is never sent on its own, whatever the
\* application does to it afterwards, its bytes included (SetBatchKey,
\* isBatchedAndNotBatchTransaction, TransactionFromBytes).
BatchedIsNotSentAlone == batched /\ Sent => ~running

\* The batch key that was set stays with the transaction.
BatchKeyIsKept == [][tx.batchKey => tx'.batchKey]_vars

\* Every request has a signed transaction to send.
NoIndexOutOfRange == panic # "index"

\* Only signers that exist are called.
NoNilSigner == panic # "nil signer"

\* The transaction regenerates IDs only if the application wants it to.
RegenerationIsAsSet == tx.regenerate => wanted
=============================================================================
