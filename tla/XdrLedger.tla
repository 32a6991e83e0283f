---- MODULE XdrLedger ----
\* Ledgers: headers, upgrades, transaction sets, the changes and the metadata a
\* transaction leaves, events (xdr/Stellar-ledger.x).
\* One definition for each generated class of stellar_sdk/xdr, under the name of
\* the class: the order, the limits and the JSON names of its parts are those of
\* its __init__, pack, unpack, to_json_dict and from_json_dict.

EXTENDS XdrResults, XdrSCP

ConfigUpgradeSet == Struct(<<
  <<"updated_entry", List(ConfigSettingEntry, Unlimited)>> >>)

ConfigUpgradeSetKey == Struct(<<
  <<"contract_id", ContractID>>, <<"content_hash", Hash>> >>)

ContractEventV0 == Struct(<<
  <<"topics", List(Ref("SCVal"), Unlimited)>>, <<"data", Ref("SCVal")>> >>)

ContractEventBody == Union(Versions(0), [v0 |-> ContractEventV0])

ContractEventType == Codes(<< "system", "contract", "diagnostic" >>)

ContractEvent == Struct(<<
  <<"ext", ExtensionPoint>>, <<"contract_id", Optional(ContractID)>>,
  <<"type", ContractEventType>>, <<"body", ContractEventBody>> >>)

DependentTxCluster == Typedef(List(Ref("TransactionEnvelope"), Unlimited))

DiagnosticEvent == Struct(<<
  <<"in_successful_contract_call", Boolean>>, <<"event", ContractEvent>> >>)

ParallelTxExecutionStage == Typedef(List(DependentTxCluster, Unlimited))

ParallelTxsComponent == Struct(<<
  <<"base_fee", Optional(Int64)>>,
  <<"execution_stages", List(ParallelTxExecutionStage, Unlimited)>> >>)

TxSetComponentTxsMaybeDiscountedFee == Struct(<<
  <<"base_fee", Optional(Int64)>>,
  <<"txs", List(Ref("TransactionEnvelope"), Unlimited)>> >>)

TxSetComponentType == Codes(<< "txset_comp_txs_maybe_discounted_fee" >>)

TxSetComponent == Union(TxSetComponentType, [
  txset_comp_txs_maybe_discounted_fee |-> TxSetComponentTxsMaybeDiscountedFee])

TransactionPhase == Union(Versions(1), [
  v0 |-> List(TxSetComponent, Unlimited), v1 |-> ParallelTxsComponent])

TransactionSetV1 == Struct(<<
  <<"previous_ledger_hash", Hash>>,
  <<"phases", List(TransactionPhase, Unlimited)>> >>)

GeneralizedTransactionSet == Union(Versions(1), [v1 |-> TransactionSetV1])

InvokeHostFunctionSuccessPreImage == Struct(<<
  <<"return_value", Ref("SCVal")>>,
  <<"events", List(ContractEvent, Unlimited)>> >>)

LedgerHeaderExtensionV1Ext == Union(Versions(0), [v0 |-> Void])

LedgerHeaderExtensionV1 == Struct(<<
  <<"flags", Uint32>>, <<"ext", LedgerHeaderExtensionV1Ext>> >>)

LedgerHeaderExt == Union(Versions(1), [
  v1 |-> LedgerHeaderExtensionV1, v0 |-> Void])

LedgerCloseValueSignature == Struct(<<
  <<"node_id", NodeID>>, <<"signature", Signature>> >>)

StellarValueType == Codes(<< "basic", "signed" >>)

StellarValueExt == Union(StellarValueType, [
  signed |-> LedgerCloseValueSignature, basic |-> Void])

UpgradeType == Typedef(VarOpaque(128))

StellarValue == Struct(<<
  <<"tx_set_hash", Hash>>, <<"close_time", TimePoint>>,
  <<"upgrades", List(UpgradeType, 6)>>, <<"ext", StellarValueExt>> >>)

LedgerHeader == Struct(<<
  <<"ledger_version", Uint32>>, <<"previous_ledger_hash", Hash>>,
  <<"scp_value", StellarValue>>, <<"tx_set_result_hash", Hash>>,
  <<"bucket_list_hash", Hash>>, <<"ledger_seq", Uint32>>,
  <<"total_coins", Int64>>, <<"fee_pool", Int64>>,
  <<"inflation_seq", Uint32>>, <<"id_pool", Uint64>>, <<"base_fee", Uint32>>,
  <<"base_reserve", Uint32>>, <<"max_tx_set_size", Uint32>>,
  <<"skip_list", Array(Hash, 4)>>, <<"ext", LedgerHeaderExt>> >>)

LedgerHeaderHistoryEntryExt == Union(Versions(0), [v0 |-> Void])

LedgerHeaderHistoryEntry == Struct(<<
  <<"hash", Hash>>, <<"header", LedgerHeader>>,
  <<"ext", LedgerHeaderHistoryEntryExt>> >>)

LedgerSCPMessages == Struct(<<
  <<"ledger_seq", Uint32>>, <<"messages", List(SCPEnvelope, Unlimited)>> >>)

SCPHistoryEntryV0 == Struct(<<
  <<"quorum_sets", List(SCPQuorumSet, Unlimited)>>,
  <<"ledger_messages", LedgerSCPMessages>> >>)

SCPHistoryEntry == Union(Versions(0), [v0 |-> SCPHistoryEntryV0])

LedgerEntryChangeType == Codes(<<
  "created", "updated", "removed", "state", "restored" >>)

LedgerEntryChange == Union(LedgerEntryChangeType, [
  created |-> Ref("LedgerEntry"), updated |-> Ref("LedgerEntry"),
  removed |-> Ref("LedgerKey"), state |-> Ref("LedgerEntry"),
  restored |-> Ref("LedgerEntry")])

LedgerEntryChanges == Typedef(List(LedgerEntryChange, Unlimited))

OperationMeta == Struct(<< <<"changes", Ref("LedgerEntryChanges")>> >>)

TransactionMetaV1 == Struct(<<
  <<"tx_changes", Ref("LedgerEntryChanges")>>,
  <<"operations", List(OperationMeta, Unlimited)>> >>)

TransactionMetaV2 == Struct(<<
  <<"tx_changes_before", Ref("LedgerEntryChanges")>>,
  <<"operations", List(OperationMeta, Unlimited)>>,
  <<"tx_changes_after", Ref("LedgerEntryChanges")>> >>)

SorobanTransactionMetaExtV1 == Struct(<<
  <<"ext", ExtensionPoint>>,
  <<"total_non_refundable_resource_fee_charged", Int64>>,
  <<"total_refundable_resource_fee_charged", Int64>>,
  <<"rent_fee_charged", Int64>> >>)

SorobanTransactionMetaExt == Union(Versions(1), [
  v1 |-> SorobanTransactionMetaExtV1, v0 |-> Void])

SorobanTransactionMeta == Struct(<<
  <<"ext", SorobanTransactionMetaExt>>,
  <<"events", List(ContractEvent, Unlimited)>>,
  <<"return_value", Ref("SCVal")>>,
  <<"diagnostic_events", List(DiagnosticEvent, Unlimited)>> >>)

TransactionMetaV3 == Struct(<<
  <<"ext", ExtensionPoint>>,
  <<"tx_changes_before", Ref("LedgerEntryChanges")>>,
  <<"operations", List(OperationMeta, Unlimited)>>,
  <<"tx_changes_after", Ref("LedgerEntryChanges")>>,
  <<"soroban_meta", Optional(SorobanTransactionMeta)>> >>)

OperationMetaV2 == Struct(<<
  <<"ext", ExtensionPoint>>, <<"changes", Ref("LedgerEntryChanges")>>,
  <<"events", List(ContractEvent, Unlimited)>> >>)

SorobanTransactionMetaV2 == Struct(<<
  <<"ext", SorobanTransactionMetaExt>>,
  <<"return_value", Optional(Ref("SCVal"))>> >>)

TransactionEventStage == Codes(<<
  "before_all_txs", "after_tx", "after_all_txs" >>)

TransactionEvent == Struct(<<
  <<"stage", TransactionEventStage>>, <<"event", ContractEvent>> >>)

TransactionMetaV4 == Struct(<<
  <<"ext", ExtensionPoint>>,
  <<"tx_changes_before", Ref("LedgerEntryChanges")>>,
  <<"operations", List(OperationMetaV2, Unlimited)>>,
  <<"tx_changes_after", Ref("LedgerEntryChanges")>>,
  <<"soroban_meta", Optional(SorobanTransactionMetaV2)>>,
  <<"events", List(TransactionEvent, Unlimited)>>,
  <<"diagnostic_events", List(DiagnosticEvent, Unlimited)>> >>)

TransactionMeta == Union(Versions(4), [
  v0 |-> List(OperationMeta, Unlimited), v1 |-> TransactionMetaV1,
  v2 |-> TransactionMetaV2, v3 |-> TransactionMetaV3,
  v4 |-> TransactionMetaV4])

TransactionResultPair == Struct(<<
  <<"transaction_hash", Hash>>, <<"result", Ref("TransactionResult")>> >>)

TransactionResultMeta == Struct(<<
  <<"result", TransactionResultPair>>,
  <<"fee_processing", Ref("LedgerEntryChanges")>>,
  <<"tx_apply_processing", Ref("TransactionMeta")>> >>)

TransactionSet == Struct(<<
  <<"previous_ledger_hash", Hash>>,
  <<"txs", List(Ref("TransactionEnvelope"), Unlimited)>> >>)

LedgerUpgradeType == CodesFrom(1, 1, <<
  "version", "base_fee", "max_tx_set_size", "base_reserve", "flags", "config",
  "max_soroban_tx_set_size" >>)

LedgerUpgrade == Union(LedgerUpgradeType, [
  version |-> Uint32, base_fee |-> Uint32, max_tx_set_size |-> Uint32,
  base_reserve |-> Uint32, flags |-> Uint32, config |-> ConfigUpgradeSetKey,
  max_soroban_tx_set_size |-> Uint32])

UpgradeEntryMeta == Struct(<<
  <<"upgrade", LedgerUpgrade>>, <<"changes", Ref("LedgerEntryChanges")>> >>)

LedgerCloseMetaV0 == Struct(<<
  <<"ledger_header", LedgerHeaderHistoryEntry>>, <<"tx_set", TransactionSet>>,
  <<"tx_processing", List(TransactionResultMeta, Unlimited)>>,
  <<"upgrades_processing", List(UpgradeEntryMeta, Unlimited)>>,
  <<"scp_info", List(SCPHistoryEntry, Unlimited)>> >>)

LedgerCloseMetaExtV1 == Struct(<<
  <<"ext", ExtensionPoint>>, <<"soroban_fee_write1_kb", Int64>> >>)

LedgerCloseMetaExt == Union(Versions(1), [
  v1 |-> LedgerCloseMetaExtV1, v0 |-> Void])

LedgerCloseMetaV1 == Struct(<<
  <<"ext", LedgerCloseMetaExt>>,
  <<"ledger_header", LedgerHeaderHistoryEntry>>,
  <<"tx_set", GeneralizedTransactionSet>>,
  <<"tx_processing", List(TransactionResultMeta, Unlimited)>>,
  <<"upgrades_processing", List(UpgradeEntryMeta, Unlimited)>>,
  <<"scp_info", List(SCPHistoryEntry, Unlimited)>>,
  <<"total_byte_size_of_live_soroban_state", Uint64>>,
  <<"evicted_keys", List(Ref("LedgerKey"), Unlimited)>>,
  <<"unused", List(Ref("LedgerEntry"), Unlimited)>> >>)

TransactionResultMetaV1 == Struct(<<
  <<"ext", ExtensionPoint>>, <<"result", TransactionResultPair>>,
  <<"fee_processing", Ref("LedgerEntryChanges")>>,
  <<"tx_apply_processing", Ref("TransactionMeta")>>,
  <<"post_tx_apply_fee_processing", Ref("LedgerEntryChanges")>> >>)

LedgerCloseMetaV2 == Struct(<<
  <<"ext", LedgerCloseMetaExt>>,
  <<"ledger_header", LedgerHeaderHistoryEntry>>,
  <<"tx_set", GeneralizedTransactionSet>>,
  <<"tx_processing", List(TransactionResultMetaV1, Unlimited)>>,
  <<"upgrades_processing", List(UpgradeEntryMeta, Unlimited)>>,
  <<"scp_info", List(SCPHistoryEntry, Unlimited)>>,
  <<"total_byte_size_of_live_soroban_state", Uint64>>,
  <<"evicted_keys", List(Ref("LedgerKey"), Unlimited)>> >>)

LedgerCloseMeta == Union(Versions(2), [
  v0 |-> LedgerCloseMetaV0, v1 |-> LedgerCloseMetaV1,
  v2 |-> LedgerCloseMetaV2])

LedgerHeaderFlags == EnumOf(<<
  <<1, "trading_flag">>, <<2, "deposit_flag">>, <<4, "withdrawal_flag">> >>)

TransactionHistoryEntryExt == Union(Versions(1), [
  v1 |-> GeneralizedTransactionSet, v0 |-> Void])

TransactionHistoryEntry == Struct(<<
  <<"ledger_seq", Uint32>>, <<"tx_set", TransactionSet>>,
  <<"ext", TransactionHistoryEntryExt>> >>)

TransactionHistoryResultEntryExt == Union(Versions(0), [v0 |-> Void])

TransactionResultSet == Struct(<<
  <<"results", List(TransactionResultPair, Unlimited)>> >>)

TransactionHistoryResultEntry == Struct(<<
  <<"ledger_seq", Uint32>>, <<"tx_result_set", TransactionResultSet>>,
  <<"ext", TransactionHistoryResultEntryExt>> >>)

====
