--------------------------- MODULE MCTransaction ---------------------------
(* Small instances of Transaction: ways in which an application uses it. *)
EXTENDS Transaction

Freezing == {"FreezeWith", "Freeze", "SetTransactionID", "SetNodeAccountIDs"}
Setting == {"SetTransactionMemo", "SetRegenerateTransactionID"}
Removing == {"RemoveSignature", "RemoveAllSignatures"}

\* Keys sign through the SDK, and the transaction is built and executed.
SignCalls == Freezing \cup Setting \cup
  {"Sign", "GetTransactionHash", "ToBytes", "FromUnfrozenBytes", "Execute"}

\* Signatures are also made outside and added, removed and read, and the
\* transaction travels as bytes.
AllCalls == Freezing \cup Removing \cup
  {"Sign", "AddSignature", "AddSignatureV2", "GetTransactionHash", "ToBytes", "GetSignatures",
   "FromBytes", "Execute"}

\* The application adds nodes to a transaction that the client has frozen.
LateCalls == {"SetNodeAccountIDs", "FreezeWith", "Execute"}

\* The transaction travels as bytes and is then executed, also again.
ByteCalls == {"FreezeWith", "Sign", "FromBytes", "Execute"}

\* The transaction is meant for a batch; signatures are made by the SDK.
BatchCalls == {"SetNodeAccountIDs", "SetBatchKey", "Batchify", "FreezeWith", "Sign", "GetTransactionHash",
  "SetTransactionMemo", "AddInnerTransaction", "BuildProtoBody", "Execute"}

\* The same, and the transaction travels as bytes and loses signatures.
BatchByteCalls == {"SetBatchKey", "Batchify", "FreezeWith", "Sign", "FromUnfrozenBytes", "FromBytes",
  "RemoveSignature", "AddInnerTransaction", "BuildProtoBody", "Execute"}

\* One signature of a transaction for a batch is made outside.
BatchAddCalls == {"Batchify", "AddSignature", "AddInnerTransaction", "BuildProtoBody"}

Usage(calls, ids, signatures) == [calls |-> calls, ids |-> ids, signatures |-> signatures]

\* Every way of use that keeps the properties.
SoundUsages ==
  {Usage(SignCalls, 3, 3), Usage(AllCalls, 2, 2), Usage(BatchCalls, 2, 3), Usage(BatchByteCalls, 2, 2)}

LateUsages == {Usage(LateCalls, 2, 3)}
ByteUsages == {Usage(ByteCalls, 2, 3)}
BatchAddUsages == {Usage(BatchAddCalls, 2, 3)}
=============================================================================
