---- MODULE XdrLedgerEntries ----
\* What a ledger holds (xdr/Stellar-ledger-entries.x): accounts, trust lines,
\* offers, data, claimable balances, pools, contract data and code, and the keys
\* of all these.
\* One definition for each generated class of stellar_sdk/xdr, under the name of
\* the class: the order, the limits and the JSON names of its parts are those of
\* its __init__, pack, unpack, to_json_dict and from_json_dict.

EXTENDS XdrContract, XdrConfigSetting

AccountEntryExtensionV3 == Struct(<<
  <<"ext", ExtensionPoint>>, <<"seq_ledger", Uint32>>,
  <<"seq_time", TimePoint>> >>)

AccountEntryExtensionV2Ext == Union(Versions(3), [
  v3 |-> AccountEntryExtensionV3, v0 |-> Void])

SponsorshipDescriptor == Typedef(Optional(AccountID))

AccountEntryExtensionV2 == Struct(<<
  <<"num_sponsored", Uint32>>, <<"num_sponsoring", Uint32>>,
  <<"signer_sponsoring_i_ds", List(SponsorshipDescriptor, 20)>>,
  <<"ext", AccountEntryExtensionV2Ext>> >>)

AccountEntryExtensionV1Ext == Union(Versions(2), [
  v2 |-> AccountEntryExtensionV2, v0 |-> Void])

Liabilities == Struct(<< <<"buying", Int64>>, <<"selling", Int64>> >>)

AccountEntryExtensionV1 == Struct(<<
  <<"liabilities", Liabilities>>, <<"ext", AccountEntryExtensionV1Ext>> >>)

AccountEntryExt == Union(Versions(1), [
  v1 |-> AccountEntryExtensionV1, v0 |-> Void])

SequenceNumber == Typedef(Int64)

Signer == Struct(<< <<"key", SignerKey>>, <<"weight", Uint32>> >>)

String32 == Typedef(String(32))

Thresholds == Typedef(Opaque(4))

AccountEntry == Struct(<<
  <<"account_id", AccountID>>, <<"balance", Int64>>,
  <<"seq_num", SequenceNumber>>, <<"num_sub_entries", Uint32>>,
  <<"inflation_dest", Optional(AccountID)>>, <<"flags", Uint32>>,
  <<"home_domain", String32>>, <<"thresholds", Thresholds>>,
  <<"signers", List(Signer, 20)>>, <<"ext", AccountEntryExt>> >>)

AccountFlags == EnumOf(<<
  <<1, "required_flag">>, <<2, "revocable_flag">>, <<4, "immutable_flag">>,
  <<8, "clawback_enabled_flag">> >>)

AssetCode12 == Code(5, Typedef(Opaque(12)))

AlphaNum12 == Struct(<<
  <<"asset_code", AssetCode12>>, <<"issuer", AccountID>> >>)

AssetCode4 == Code(0, Typedef(Opaque(4)))

AlphaNum4 == Struct(<<
  <<"asset_code", AssetCode4>>, <<"issuer", AccountID>> >>)

AssetType == Codes(<<
  "native", "credit_alphanum4", "credit_alphanum12", "pool_share" >>)

Asset == Union(AssetType, [
  credit_alphanum4 |-> AlphaNum4, credit_alphanum12 |-> AlphaNum12,
  native |-> Void])

AssetCode == Union(AssetType, [
  credit_alphanum4 |-> AssetCode4, credit_alphanum12 |-> AssetCode12])

BucketEntryType == CodesFrom(-1, 1, <<
  "metaentry", "liveentry", "deadentry", "initentry" >>)

BucketListType == Codes(<< "live", "hot_archive" >>)

BucketMetadataExt == Union(Versions(1), [v1 |-> BucketListType, v0 |-> Void])

BucketMetadata == Struct(<<
  <<"ledger_version", Uint32>>, <<"ext", BucketMetadataExt>> >>)

ClaimableBalanceEntryExtensionV1Ext == Union(Versions(0), [v0 |-> Void])

ClaimableBalanceEntryExtensionV1 == Struct(<<
  <<"ext", ClaimableBalanceEntryExtensionV1Ext>>, <<"flags", Uint32>> >>)

ClaimableBalanceEntryExt == Union(Versions(1), [
  v1 |-> ClaimableBalanceEntryExtensionV1, v0 |-> Void])

ClaimantType == Codes(<< "claimant_type_v0" >>)

ClaimPredicateType == Codes(<<
  "unconditional", "and", "or", "not", "before_absolute_time",
  "before_relative_time" >>)

ClaimPredicate == Union(ClaimPredicateType, [
  and |-> List(Ref("ClaimPredicate"), 2),
  or |-> List(Ref("ClaimPredicate"), 2),
  not |-> Optional(Ref("ClaimPredicate")), before_absolute_time |-> Int64,
  before_relative_time |-> Int64, unconditional |-> Void])

ClaimantV0 == Struct(<<
  <<"destination", AccountID>>, <<"predicate", ClaimPredicate>> >>)

Claimant == Union(ClaimantType, [claimant_type_v0 |-> ClaimantV0])

ClaimableBalanceEntry == Struct(<<
  <<"balance_id", ClaimableBalanceID>>, <<"claimants", List(Claimant, 10)>>,
  <<"asset", Ref("Asset")>>, <<"amount", Int64>>,
  <<"ext", ClaimableBalanceEntryExt>> >>)

ContractCodeCostInputs == Struct(<<
  <<"ext", ExtensionPoint>>, <<"n_instructions", Uint32>>,
  <<"n_functions", Uint32>>, <<"n_globals", Uint32>>,
  <<"n_table_entries", Uint32>>, <<"n_types", Uint32>>,
  <<"n_data_segments", Uint32>>, <<"n_elem_segments", Uint32>>,
  <<"n_imports", Uint32>>, <<"n_exports", Uint32>>,
  <<"n_data_segment_bytes", Uint32>> >>)

ContractCodeEntryV1 == Struct(<<
  <<"ext", ExtensionPoint>>, <<"cost_inputs", ContractCodeCostInputs>> >>)

ContractCodeEntryExt == Union(Versions(1), [
  v1 |-> ContractCodeEntryV1, v0 |-> Void])

ContractCodeEntry == Struct(<<
  <<"ext", ContractCodeEntryExt>>, <<"hash", Hash>>,
  <<"code", VarOpaque(Unlimited)>> >>)

ContractDataDurability == Codes(<< "temporary", "persistent" >>)

ContractDataEntry == Struct(<<
  <<"ext", ExtensionPoint>>, <<"contract", Ref("SCAddress")>>,
  <<"key", Ref("SCVal")>>, <<"durability", ContractDataDurability>>,
  <<"val", Ref("SCVal")>> >>)

DataEntryExt == Union(Versions(0), [v0 |-> Void])

DataValue == Typedef(VarOpaque(64))

String64 == Typedef(String(64))

DataEntry == Struct(<<
  <<"account_id", AccountID>>, <<"data_name", String64>>,
  <<"data_value", DataValue>>, <<"ext", DataEntryExt>> >>)

LedgerEntryType == Codes(<<
  "account", "trustline", "offer", "data", "claimable_balance",
  "liquidity_pool", "contract_data", "contract_code", "config_setting",
  "ttl" >>)

LiquidityPoolConstantProductParameters == Struct(<<
  <<"asset_a", Ref("Asset")>>, <<"asset_b", Ref("Asset")>>,
  <<"fee", Int32>> >>)

LiquidityPoolEntryConstantProduct == Struct(<<
  <<"params", LiquidityPoolConstantProductParameters>>,
  <<"reserve_a", Int64>>, <<"reserve_b", Int64>>,
  <<"total_pool_shares", Int64>>,
  <<"pool_shares_trust_line_count", Int64>> >>)

LiquidityPoolType == Codes(<< "liquidity_pool_constant_product" >>)

LiquidityPoolEntryBody == Union(LiquidityPoolType, [
  liquidity_pool_constant_product |-> LiquidityPoolEntryConstantProduct])

LiquidityPoolEntry == Struct(<<
  <<"liquidity_pool_id", PoolID>>, <<"body", LiquidityPoolEntryBody>> >>)

OfferEntryExt == Union(Versions(0), [v0 |-> Void])

Price == Struct(<< <<"n", Int32>>, <<"d", Int32>> >>)

OfferEntry == Struct(<<
  <<"seller_id", AccountID>>, <<"offer_id", Int64>>,
  <<"selling", Ref("Asset")>>, <<"buying", Ref("Asset")>>,
  <<"amount", Int64>>, <<"price", Price>>, <<"flags", Uint32>>,
  <<"ext", OfferEntryExt>> >>)

TrustLineAsset == Union(AssetType, [
  credit_alphanum4 |-> AlphaNum4, credit_alphanum12 |-> AlphaNum12,
  pool_share |-> PoolID, native |-> Void])

TrustLineEntryExtensionV2Ext == Union(Versions(0), [v0 |-> Void])

TrustLineEntryExtensionV2 == Struct(<<
  <<"liquidity_pool_use_count", Int32>>,
  <<"ext", TrustLineEntryExtensionV2Ext>> >>)

TrustLineEntryV1Ext == Union(Versions(2), [
  v2 |-> TrustLineEntryExtensionV2, v0 |-> Void])

TrustLineEntryV1 == Struct(<<
  <<"liabilities", Liabilities>>, <<"ext", TrustLineEntryV1Ext>> >>)

TrustLineEntryExt == Union(Versions(1), [
  v1 |-> TrustLineEntryV1, v0 |-> Void])

TrustLineEntry == Struct(<<
  <<"account_id", AccountID>>, <<"asset", TrustLineAsset>>,
  <<"balance", Int64>>, <<"limit", Int64>>, <<"flags", Uint32>>,
  <<"ext", TrustLineEntryExt>> >>)

TTLEntry == Struct(<<
  <<"key_hash", Hash>>, <<"live_until_ledger_seq", Uint32>> >>)

LedgerEntryData == Union(LedgerEntryType, [
  account |-> AccountEntry, trustline |-> TrustLineEntry,
  offer |-> OfferEntry, data |-> DataEntry,
  claimable_balance |-> ClaimableBalanceEntry,
  liquidity_pool |-> LiquidityPoolEntry, contract_data |-> ContractDataEntry,
  contract_code |-> ContractCodeEntry, config_setting |-> ConfigSettingEntry,
  ttl |-> TTLEntry])

LedgerEntryExtensionV1Ext == Union(Versions(0), [v0 |-> Void])

LedgerEntryExtensionV1 == Struct(<<
  <<"sponsoring_id", SponsorshipDescriptor>>,
  <<"ext", LedgerEntryExtensionV1Ext>> >>)

LedgerEntryExt == Union(Versions(1), [
  v1 |-> LedgerEntryExtensionV1, v0 |-> Void])

LedgerEntry == Struct(<<
  <<"last_modified_ledger_seq", Uint32>>, <<"data", LedgerEntryData>>,
  <<"ext", LedgerEntryExt>> >>)

LedgerKeyAccount == Struct(<< <<"account_id", AccountID>> >>)

LedgerKeyClaimableBalance == Struct(<<
  <<"balance_id", ClaimableBalanceID>> >>)

LedgerKeyConfigSetting == Struct(<<
  <<"config_setting_id", ConfigSettingID>> >>)

LedgerKeyContractCode == Struct(<< <<"hash", Hash>> >>)

LedgerKeyContractData == Struct(<<
  <<"contract", Ref("SCAddress")>>, <<"key", Ref("SCVal")>>,
  <<"durability", ContractDataDurability>> >>)

LedgerKeyData == Struct(<<
  <<"account_id", AccountID>>, <<"data_name", String64>> >>)

LedgerKeyLiquidityPool == Struct(<< <<"liquidity_pool_id", PoolID>> >>)

LedgerKeyOffer == Struct(<<
  <<"seller_id", AccountID>>, <<"offer_id", Int64>> >>)

LedgerKeyTrustLine == Struct(<<
  <<"account_id", AccountID>>, <<"asset", TrustLineAsset>> >>)

LedgerKeyTtl == Struct(<< <<"key_hash", Hash>> >>)

LedgerKey == Union(LedgerEntryType, [
  account |-> LedgerKeyAccount, trustline |-> LedgerKeyTrustLine,
  offer |-> LedgerKeyOffer, data |-> LedgerKeyData,
  claimable_balance |-> LedgerKeyClaimableBalance,
  liquidity_pool |-> LedgerKeyLiquidityPool,
  contract_data |-> LedgerKeyContractData,
  contract_code |-> LedgerKeyContractCode,
  config_setting |-> LedgerKeyConfigSetting, ttl |-> LedgerKeyTtl])

BucketEntry == Union(BucketEntryType, [
  liveentry |-> Ref("LedgerEntry"), initentry |-> Ref("LedgerEntry"),
  deadentry |-> Ref("LedgerKey"), metaentry |-> BucketMetadata])

ClaimableBalanceFlags == EnumOf(<<
  <<1, "claimable_balance_clawback_enabled_flag">> >>)

EnvelopeType == Codes(<<
  "tx_v0", "scp", "tx", "auth", "scpvalue", "tx_fee_bump", "op_id",
  "pool_revoke_op_id", "contract_id", "soroban_authorization",
  "soroban_authorization_with_address" >>)

HotArchiveBucketEntryType == CodesFrom(-1, 1, <<
  "metaentry", "archived", "live" >>)

HotArchiveBucketEntry == Union(HotArchiveBucketEntryType, [
  archived |-> Ref("LedgerEntry"), live |-> Ref("LedgerKey"),
  metaentry |-> BucketMetadata])

OfferEntryFlags == EnumOf(<< <<1, "passive_flag">> >>)

ThresholdIndexes == Codes(<< "master_weight", "low", "med", "high" >>)

TrustLineFlags == EnumOf(<<
  <<1, "authorized_flag">>, <<2, "authorized_to_maintain_liabilities_flag">>,
  <<4, "trustline_clawback_enabled_flag">> >>)

====
