---- MODULE XdrTransaction ----
\* Transactions, their operations, preconditions, memos and authorizations, and
\* the envelopes they travel in (xdr/Stellar-transaction.x without its results).
\* One definition for each generated class of stellar_sdk/xdr, under the name of
\* the class: the order, the limits and the JSON names of its parts are those of
\* its __init__, pack, unpack, to_json_dict and from_json_dict.

EXTENDS XdrLedgerEntries

AllowTrustOp == Struct(<<
  <<"trustor", AccountID>>, <<"asset", AssetCode>>,
  <<"authorize", Uint32>> >>)

BeginSponsoringFutureReservesOp == Struct(<< <<"sponsored_id", AccountID>> >>)

BumpSequenceOp == Struct(<< <<"bump_to", SequenceNumber>> >>)

LiquidityPoolParameters == Union(LiquidityPoolType, [
  liquidity_pool_constant_product |-> LiquidityPoolConstantProductParameters])

ChangeTrustAsset == Union(AssetType, [
  credit_alphanum4 |-> AlphaNum4, credit_alphanum12 |-> AlphaNum12,
  pool_share |-> LiquidityPoolParameters, native |-> Void])

ChangeTrustOp == Struct(<<
  <<"line", ChangeTrustAsset>>, <<"limit", Int64>> >>)

ClaimClaimableBalanceOp == Struct(<< <<"balance_id", ClaimableBalanceID>> >>)

ClawbackClaimableBalanceOp == Struct(<<
  <<"balance_id", ClaimableBalanceID>> >>)

MuxedAccountMed25519 == Struct(<< <<"id", Uint64>>, <<"ed25519", Uint256>> >>)

MuxedAccount == StrkeyUnion(CryptoKeyType, [
  ed25519 |-> Strkey("G", 0, Uint256),
  muxed_ed25519 |-> MuxedStrkey(MuxedAccountMed25519)])

ClawbackOp == Struct(<<
  <<"asset", Ref("Asset")>>, <<"from_", MuxedAccount>>,
  <<"amount", Int64>> >>)

ContractIDPreimageFromAddress == Struct(<<
  <<"address", Ref("SCAddress")>>, <<"salt", Uint256>> >>)

ContractIDPreimageType == Codes(<< "address", "asset" >>)

ContractIDPreimage == Union(ContractIDPreimageType, [
  address |-> ContractIDPreimageFromAddress, asset |-> Ref("Asset")])

CreateAccountOp == Struct(<<
  <<"destination", AccountID>>, <<"starting_balance", Int64>> >>)

CreateClaimableBalanceOp == Struct(<<
  <<"asset", Ref("Asset")>>, <<"amount", Int64>>,
  <<"claimants", List(Claimant, 10)>> >>)

CreateContractArgs == Struct(<<
  <<"contract_id_preimage", ContractIDPreimage>>,
  <<"executable", ContractExecutable>> >>)

CreateContractArgsV2 == Struct(<<
  <<"contract_id_preimage", ContractIDPreimage>>,
  <<"executable", ContractExecutable>>,
  <<"constructor_args", List(Ref("SCVal"), Unlimited)>> >>)

CreatePassiveSellOfferOp == Struct(<<
  <<"selling", Ref("Asset")>>, <<"buying", Ref("Asset")>>,
  <<"amount", Int64>>, <<"price", Price>> >>)

DecoratedSignature == Struct(<<
  <<"hint", SignatureHint>>, <<"signature", Signature>> >>)

ExtendFootprintTTLOp == Struct(<<
  <<"ext", ExtensionPoint>>, <<"extend_to", Uint32>> >>)

FeeBumpTransactionExt == Union(Versions(0), [v0 |-> Void])

MemoType == Codes(<< "none", "text", "id", "hash", "return" >>)

Memo == Union(MemoType, [
  text |-> String(28), id |-> Uint64, hash |-> Hash, return |-> Hash,
  none |-> Void])

HostFunctionType == Codes(<<
  "invoke_contract", "create_contract", "upload_contract_wasm",
  "create_contract_v2" >>)

InvokeContractArgs == Struct(<<
  <<"contract_address", Ref("SCAddress")>>, <<"function_name", SCSymbol>>,
  <<"args", List(Ref("SCVal"), Unlimited)>> >>)

HostFunction == Union(HostFunctionType, [
  invoke_contract |-> InvokeContractArgs,
  create_contract |-> CreateContractArgs,
  upload_contract_wasm |-> VarOpaque(Unlimited),
  create_contract_v2 |-> CreateContractArgsV2])

SorobanAuthorizedFunctionType == Codes(<<
  "contract_fn", "create_contract_host_fn", "create_contract_v2_host_fn" >>)

SorobanAuthorizedFunction == Union(SorobanAuthorizedFunctionType, [
  contract_fn |-> InvokeContractArgs,
  create_contract_host_fn |-> CreateContractArgs,
  create_contract_v2_host_fn |-> CreateContractArgsV2])

SorobanAuthorizedInvocation == Struct(<<
  <<"function", SorobanAuthorizedFunction>>,
  <<"sub_invocations", List(Ref("SorobanAuthorizedInvocation"), Unlimited)>> >>)

SorobanAddressCredentials == Struct(<<
  <<"address", Ref("SCAddress")>>, <<"nonce", Int64>>,
  <<"signature_expiration_ledger", Uint32>>, <<"signature", Ref("SCVal")>> >>)

SorobanDelegateSignature == Struct(<<
  <<"address", Ref("SCAddress")>>, <<"signature", Ref("SCVal")>>,
  <<"nested_delegates", List(Ref("SorobanDelegateSignature"), Unlimited)>> >>)

SorobanAddressCredentialsWithDelegates == Struct(<<
  <<"address_credentials", SorobanAddressCredentials>>,
  <<"delegates", List(SorobanDelegateSignature, Unlimited)>> >>)

SorobanCredentialsType == Codes(<<
  "source_account", "address", "address_v2", "address_with_delegates" >>)

SorobanCredentials == Union(SorobanCredentialsType, [
  address |-> SorobanAddressCredentials,
  address_v2 |-> SorobanAddressCredentials,
  address_with_delegates |-> SorobanAddressCredentialsWithDelegates,
  source_account |-> Void])

SorobanAuthorizationEntry == Struct(<<
  <<"credentials", SorobanCredentials>>,
  <<"root_invocation", SorobanAuthorizedInvocation>> >>)

InvokeHostFunctionOp == Struct(<<
  <<"host_function", HostFunction>>,
  <<"auth", List(SorobanAuthorizationEntry, Unlimited)>> >>)

LiquidityPoolDepositOp == Struct(<<
  <<"liquidity_pool_id", PoolID>>, <<"max_amount_a", Int64>>,
  <<"max_amount_b", Int64>>, <<"min_price", Price>>,
  <<"max_price", Price>> >>)

LiquidityPoolWithdrawOp == Struct(<<
  <<"liquidity_pool_id", PoolID>>, <<"amount", Int64>>,
  <<"min_amount_a", Int64>>, <<"min_amount_b", Int64>> >>)

ManageBuyOfferOp == Struct(<<
  <<"selling", Ref("Asset")>>, <<"buying", Ref("Asset")>>,
  <<"buy_amount", Int64>>, <<"price", Price>>, <<"offer_id", Int64>> >>)

ManageDataOp == Struct(<<
  <<"data_name", String64>>, <<"data_value", Optional(DataValue)>> >>)

ManageSellOfferOp == Struct(<<
  <<"selling", Ref("Asset")>>, <<"buying", Ref("Asset")>>,
  <<"amount", Int64>>, <<"price", Price>>, <<"offer_id", Int64>> >>)

OperationType == Codes(<<
  "create_account", "payment", "path_payment_strict_receive",
  "manage_sell_offer", "create_passive_sell_offer", "set_options",
  "change_trust", "allow_trust", "account_merge", "inflation", "manage_data",
  "bump_sequence", "manage_buy_offer", "path_payment_strict_send",
  "create_claimable_balance", "claim_claimable_balance",
  "begin_sponsoring_future_reserves", "end_sponsoring_future_reserves",
  "revoke_sponsorship", "clawback", "clawback_claimable_balance",
  "set_trust_line_flags", "liquidity_pool_deposit", "liquidity_pool_withdraw",
  "invoke_host_function", "extend_footprint_ttl", "restore_footprint" >>)

PathPaymentStrictReceiveOp == Struct(<<
  <<"send_asset", Ref("Asset")>>, <<"send_max", Int64>>,
  <<"destination", MuxedAccount>>, <<"dest_asset", Ref("Asset")>>,
  <<"dest_amount", Int64>>, <<"path", List(Ref("Asset"), 5)>> >>)

PathPaymentStrictSendOp == Struct(<<
  <<"send_asset", Ref("Asset")>>, <<"send_amount", Int64>>,
  <<"destination", MuxedAccount>>, <<"dest_asset", Ref("Asset")>>,
  <<"dest_min", Int64>>, <<"path", List(Ref("Asset"), 5)>> >>)

PaymentOp == Struct(<<
  <<"destination", MuxedAccount>>, <<"asset", Ref("Asset")>>,
  <<"amount", Int64>> >>)

RestoreFootprintOp == Struct(<< <<"ext", ExtensionPoint>> >>)

RevokeSponsorshipOpSigner == Struct(<<
  <<"account_id", AccountID>>, <<"signer_key", SignerKey>> >>)

RevokeSponsorshipType == Codes(<< "ledger_entry", "signer" >>)

RevokeSponsorshipOp == Union(RevokeSponsorshipType, [
  ledger_entry |-> Ref("LedgerKey"), signer |-> RevokeSponsorshipOpSigner])

SetOptionsOp == Struct(<<
  <<"inflation_dest", Optional(AccountID)>>,
  <<"clear_flags", Optional(Uint32)>>, <<"set_flags", Optional(Uint32)>>,
  <<"master_weight", Optional(Uint32)>>,
  <<"low_threshold", Optional(Uint32)>>,
  <<"med_threshold", Optional(Uint32)>>,
  <<"high_threshold", Optional(Uint32)>>,
  <<"home_domain", Optional(String32)>>, <<"signer", Optional(Signer)>> >>)

SetTrustLineFlagsOp == Struct(<<
  <<"trustor", AccountID>>, <<"asset", Ref("Asset")>>,
  <<"clear_flags", Uint32>>, <<"set_flags", Uint32>> >>)

OperationBody == UnionElseVoid(OperationType, [
  create_account |-> CreateAccountOp, payment |-> PaymentOp,
  path_payment_strict_receive |-> PathPaymentStrictReceiveOp,
  manage_sell_offer |-> ManageSellOfferOp,
  create_passive_sell_offer |-> CreatePassiveSellOfferOp,
  set_options |-> SetOptionsOp, change_trust |-> ChangeTrustOp,
  allow_trust |-> AllowTrustOp, account_merge |-> MuxedAccount,
  manage_data |-> ManageDataOp, bump_sequence |-> BumpSequenceOp,
  manage_buy_offer |-> ManageBuyOfferOp,
  path_payment_strict_send |-> PathPaymentStrictSendOp,
  create_claimable_balance |-> CreateClaimableBalanceOp,
  claim_claimable_balance |-> ClaimClaimableBalanceOp,
  begin_sponsoring_future_reserves |-> BeginSponsoringFutureReservesOp,
  revoke_sponsorship |-> RevokeSponsorshipOp, clawback |-> ClawbackOp,
  clawback_claimable_balance |-> ClawbackClaimableBalanceOp,
  set_trust_line_flags |-> SetTrustLineFlagsOp,
  liquidity_pool_deposit |-> LiquidityPoolDepositOp,
  liquidity_pool_withdraw |-> LiquidityPoolWithdrawOp,
  invoke_host_function |-> InvokeHostFunctionOp,
  extend_footprint_ttl |-> ExtendFootprintTTLOp,
  restore_footprint |-> RestoreFootprintOp])

Operation == Struct(<<
  <<"source_account", Optional(MuxedAccount)>>, <<"body", OperationBody>> >>)

PreconditionType == Codes(<< "none", "time", "v2" >>)

LedgerBounds == Struct(<<
  <<"min_ledger", Uint32>>, <<"max_ledger", Uint32>> >>)

TimeBounds == Struct(<<
  <<"min_time", TimePoint>>, <<"max_time", TimePoint>> >>)

PreconditionsV2 == Struct(<<
  <<"time_bounds", Optional(TimeBounds)>>,
  <<"ledger_bounds", Optional(LedgerBounds)>>,
  <<"min_seq_num", Optional(SequenceNumber)>>, <<"min_seq_age", Duration>>,
  <<"min_seq_ledger_gap", Uint32>>,
  <<"extra_signers", List(SignerKey, 2)>> >>)

Preconditions == Union(PreconditionType, [
  time |-> TimeBounds, v2 |-> PreconditionsV2, none |-> Void])

LedgerFootprint == Struct(<<
  <<"read_only", List(Ref("LedgerKey"), Unlimited)>>,
  <<"read_write", List(Ref("LedgerKey"), Unlimited)>> >>)

SorobanResources == Struct(<<
  <<"footprint", LedgerFootprint>>, <<"instructions", Uint32>>,
  <<"disk_read_bytes", Uint32>>, <<"write_bytes", Uint32>> >>)

SorobanResourcesExtV0 == Struct(<<
  <<"archived_soroban_entries", List(Uint32, Unlimited)>> >>)

SorobanTransactionDataExt == Union(Versions(1), [
  v1 |-> SorobanResourcesExtV0, v0 |-> Void])

SorobanTransactionData == Struct(<<
  <<"ext", SorobanTransactionDataExt>>, <<"resources", SorobanResources>>,
  <<"resource_fee", Int64>> >>)

TransactionExt == Union(Versions(1), [
  v1 |-> SorobanTransactionData, v0 |-> Void])

Transaction == Struct(<<
  <<"source_account", MuxedAccount>>, <<"fee", Uint32>>,
  <<"seq_num", SequenceNumber>>, <<"cond", Preconditions>>, <<"memo", Memo>>,
  <<"operations", List(Ref("Operation"), 100)>>, <<"ext", TransactionExt>> >>)

TransactionV1Envelope == Struct(<<
  <<"tx", Transaction>>, <<"signatures", List(DecoratedSignature, 20)>> >>)

FeeBumpTransactionInnerTx == Union(EnvelopeType, [
  tx |-> TransactionV1Envelope])

FeeBumpTransaction == Struct(<<
  <<"fee_source", MuxedAccount>>, <<"fee", Int64>>,
  <<"inner_tx", FeeBumpTransactionInnerTx>>,
  <<"ext", FeeBumpTransactionExt>> >>)

FeeBumpTransactionEnvelope == Struct(<<
  <<"tx", FeeBumpTransaction>>,
  <<"signatures", List(DecoratedSignature, 20)>> >>)

HashIDPreimageContractID == Struct(<<
  <<"network_id", Hash>>, <<"contract_id_preimage", ContractIDPreimage>> >>)

HashIDPreimageOperationID == Struct(<<
  <<"source_account", AccountID>>, <<"seq_num", SequenceNumber>>,
  <<"op_num", Uint32>> >>)

HashIDPreimageRevokeID == Struct(<<
  <<"source_account", AccountID>>, <<"seq_num", SequenceNumber>>,
  <<"op_num", Uint32>>, <<"liquidity_pool_id", PoolID>>,
  <<"asset", Ref("Asset")>> >>)

HashIDPreimageSorobanAuthorization == Struct(<<
  <<"network_id", Hash>>, <<"nonce", Int64>>,
  <<"signature_expiration_ledger", Uint32>>,
  <<"invocation", SorobanAuthorizedInvocation>> >>)

HashIDPreimageSorobanAuthorizationWithAddress == Struct(<<
  <<"network_id", Hash>>, <<"nonce", Int64>>,
  <<"signature_expiration_ledger", Uint32>>, <<"address", Ref("SCAddress")>>,
  <<"invocation", SorobanAuthorizedInvocation>> >>)

HashIDPreimage == Union(EnvelopeType, [
  op_id |-> HashIDPreimageOperationID,
  pool_revoke_op_id |-> HashIDPreimageRevokeID,
  contract_id |-> HashIDPreimageContractID,
  soroban_authorization |-> HashIDPreimageSorobanAuthorization,
  soroban_authorization_with_address |->
    HashIDPreimageSorobanAuthorizationWithAddress])

SorobanAuthorizationEntries ==
  Typedef(List(SorobanAuthorizationEntry, Unlimited))

TransactionV0Ext == Union(Versions(0), [v0 |-> Void])

TransactionV0 == Struct(<<
  <<"source_account_ed25519", Uint256>>, <<"fee", Uint32>>,
  <<"seq_num", SequenceNumber>>, <<"time_bounds", Optional(TimeBounds)>>,
  <<"memo", Memo>>, <<"operations", List(Ref("Operation"), 100)>>,
  <<"ext", TransactionV0Ext>> >>)

TransactionV0Envelope == Struct(<<
  <<"tx", TransactionV0>>, <<"signatures", List(DecoratedSignature, 20)>> >>)

TransactionEnvelope == Union(EnvelopeType, [
  tx_v0 |-> TransactionV0Envelope, tx |-> TransactionV1Envelope,
  tx_fee_bump |-> FeeBumpTransactionEnvelope])

TransactionSignaturePayloadTaggedTransaction == Union(EnvelopeType, [
  tx |-> Transaction, tx_fee_bump |-> FeeBumpTransaction])

TransactionSignaturePayload == Struct(<<
  <<"network_id", Hash>>,
  <<"tagged_transaction", TransactionSignaturePayloadTaggedTransaction>> >>)

====
