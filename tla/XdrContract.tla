---- MODULE XdrContract ----
\* Values of smart contracts (xdr/Stellar-contract.x), the types a contract's
\* specification names (-contract-spec.x), its metadata (-contract-meta.x) and
\* its environment's (-contract-env-meta.x). Values are recursive, and so are the
\* types of a specification.
\* One definition for each generated class of stellar_sdk/xdr, under the name of
\* the class: the order, the limits and the JSON names of its parts are those of
\* its __init__, pack, unpack, to_json_dict and from_json_dict.

EXTENDS XdrTypes

ContractExecutableType == Codes(<< "wasm", "stellar_asset" >>)

ContractExecutable == Union(ContractExecutableType, [
  wasm |-> Hash, stellar_asset |-> Void])

Int128Parts == Decimal(Struct(<< <<"hi", Int64>>, <<"lo", Uint64>> >>))

Int256Parts == Decimal(Struct(<<
  <<"hi_hi", Int64>>, <<"hi_lo", Uint64>>, <<"lo_hi", Uint64>>,
  <<"lo_lo", Uint64>> >>))

MuxedEd25519Account == Struct(<< <<"id", Uint64>>, <<"ed25519", Uint256>> >>)

SCAddressType == Codes(<<
  "account", "contract", "muxed_account", "claimable_balance",
  "liquidity_pool" >>)

SCAddress == StrkeyUnion(SCAddressType, [
  account |-> AccountID, contract |-> Strkey("C", 0, ContractID),
  muxed_account |-> MuxedStrkey(MuxedEd25519Account),
  claimable_balance |-> ClaimableBalanceID, liquidity_pool |-> PoolID])

SCBytes == Typedef(VarOpaque(Unlimited))

SCMapEntry == Struct(<< <<"key", Ref("SCVal")>>, <<"val", Ref("SCVal")>> >>)

SCMap == Typedef(List(SCMapEntry, Unlimited))

SCContractInstance == Struct(<<
  <<"executable", ContractExecutable>>, <<"storage", Optional(SCMap)>> >>)

SCEnvMetaEntryInterfaceVersion == Struct(<<
  <<"protocol", Uint32>>, <<"pre_release", Uint32>> >>)

SCEnvMetaKind == Codes(<< "sc_env_meta_kind_interface_version" >>)

SCEnvMetaEntry == Union(SCEnvMetaKind, [
  sc_env_meta_kind_interface_version |-> SCEnvMetaEntryInterfaceVersion])

SCErrorCode == Codes(<<
  "arith_domain", "index_bounds", "invalid_input", "missing_value",
  "existing_value", "exceeded_limit", "invalid_action", "internal_error",
  "unexpected_type", "unexpected_size" >>)

SCErrorType == Codes(<<
  "contract", "wasm_vm", "context", "storage", "object", "crypto", "events",
  "budget", "value", "auth" >>)

SCError == Union(SCErrorType, [
  contract |-> Uint32, wasm_vm |-> SCErrorCode, context |-> SCErrorCode,
  storage |-> SCErrorCode, object |-> SCErrorCode, crypto |-> SCErrorCode,
  events |-> SCErrorCode, budget |-> SCErrorCode, value |-> SCErrorCode,
  auth |-> SCErrorCode])

SCMetaKind == Codes(<< "sc_meta_v0" >>)

SCMetaV0 == Struct(<<
  <<"key", String(Unlimited)>>, <<"val", String(Unlimited)>> >>)

SCMetaEntry == Union(SCMetaKind, [sc_meta_v0 |-> SCMetaV0])

SCNonceKey == Struct(<< <<"nonce", Int64>> >>)

SCSpecEntryKind == Codes(<<
  "function_v0", "udt_struct_v0", "udt_union_v0", "udt_enum_v0",
  "udt_error_enum_v0", "event_v0" >>)

SCSpecEventDataFormat == Codes(<< "single_value", "vec", "map" >>)

SCSpecEventParamLocationV0 == Codes(<< "data", "topic_list" >>)

SCSpecType == EnumOf(<<
  <<0, "val">>, <<1, "bool">>, <<2, "void">>, <<3, "error">>, <<4, "u32">>,
  <<5, "i32">>, <<6, "u64">>, <<7, "i64">>, <<8, "timepoint">>,
  <<9, "duration">>, <<10, "u128">>, <<11, "i128">>, <<12, "u256">>,
  <<13, "i256">>, <<14, "bytes">>, <<16, "string">>, <<17, "symbol">>,
  <<19, "address">>, <<20, "muxed_address">>, <<1000, "option">>,
  <<1001, "result">>, <<1002, "vec">>, <<1004, "map">>, <<1005, "tuple">>,
  <<1006, "bytes_n">>, <<2000, "udt">> >>)

SCSpecTypeBytesN == Struct(<< <<"n", Uint32>> >>)

SCSpecTypeMap == Struct(<<
  <<"key_type", Ref("SCSpecTypeDef")>>,
  <<"value_type", Ref("SCSpecTypeDef")>> >>)

SCSpecTypeOption == Struct(<< <<"value_type", Ref("SCSpecTypeDef")>> >>)

SCSpecTypeResult == Struct(<<
  <<"ok_type", Ref("SCSpecTypeDef")>>,
  <<"error_type", Ref("SCSpecTypeDef")>> >>)

SCSpecTypeTuple == Struct(<<
  <<"value_types", List(Ref("SCSpecTypeDef"), 12)>> >>)

SCSpecTypeUDT == Struct(<< <<"name", String(60)>> >>)

SCSpecTypeVec == Struct(<< <<"element_type", Ref("SCSpecTypeDef")>> >>)

SCSpecTypeDef == UnionElseVoid(SCSpecType, [
  option |-> SCSpecTypeOption, result |-> SCSpecTypeResult,
  vec |-> SCSpecTypeVec, map |-> SCSpecTypeMap, tuple |-> SCSpecTypeTuple,
  bytes_n |-> SCSpecTypeBytesN, udt |-> SCSpecTypeUDT])

SCSpecEventParamV0 == Struct(<<
  <<"doc", String(1024)>>, <<"name", String(30)>>, <<"type", SCSpecTypeDef>>,
  <<"location", SCSpecEventParamLocationV0>> >>)

SCSymbol == Typedef(String(32))

SCSpecEventV0 == Struct(<<
  <<"doc", String(1024)>>, <<"lib", String(80)>>, <<"name", SCSymbol>>,
  <<"prefix_topics", List(SCSymbol, 2)>>,
  <<"params", List(SCSpecEventParamV0, Unlimited)>>,
  <<"data_format", SCSpecEventDataFormat>> >>)

SCSpecFunctionInputV0 == Struct(<<
  <<"doc", String(1024)>>, <<"name", String(30)>>,
  <<"type", SCSpecTypeDef>> >>)

SCSpecFunctionV0 == Struct(<<
  <<"doc", String(1024)>>, <<"name", SCSymbol>>,
  <<"inputs", List(SCSpecFunctionInputV0, Unlimited)>>,
  <<"outputs", List(SCSpecTypeDef, 1)>> >>)

SCSpecUDTEnumCaseV0 == Struct(<<
  <<"doc", String(1024)>>, <<"name", String(60)>>, <<"value", Uint32>> >>)

SCSpecUDTEnumV0 == Struct(<<
  <<"doc", String(1024)>>, <<"lib", String(80)>>, <<"name", String(60)>>,
  <<"cases", List(SCSpecUDTEnumCaseV0, Unlimited)>> >>)

SCSpecUDTErrorEnumCaseV0 == Struct(<<
  <<"doc", String(1024)>>, <<"name", String(60)>>, <<"value", Uint32>> >>)

SCSpecUDTErrorEnumV0 == Struct(<<
  <<"doc", String(1024)>>, <<"lib", String(80)>>, <<"name", String(60)>>,
  <<"cases", List(SCSpecUDTErrorEnumCaseV0, Unlimited)>> >>)

SCSpecUDTStructFieldV0 == Struct(<<
  <<"doc", String(1024)>>, <<"name", String(30)>>,
  <<"type", SCSpecTypeDef>> >>)

SCSpecUDTStructV0 == Struct(<<
  <<"doc", String(1024)>>, <<"lib", String(80)>>, <<"name", String(60)>>,
  <<"fields", List(SCSpecUDTStructFieldV0, Unlimited)>> >>)

SCSpecUDTUnionCaseTupleV0 == Struct(<<
  <<"doc", String(1024)>>, <<"name", String(60)>>,
  <<"type", List(SCSpecTypeDef, Unlimited)>> >>)

SCSpecUDTUnionCaseV0Kind == Codes(<< "void_v0", "tuple_v0" >>)

SCSpecUDTUnionCaseVoidV0 == Struct(<<
  <<"doc", String(1024)>>, <<"name", String(60)>> >>)

SCSpecUDTUnionCaseV0 == Union(SCSpecUDTUnionCaseV0Kind, [
  void_v0 |-> SCSpecUDTUnionCaseVoidV0,
  tuple_v0 |-> SCSpecUDTUnionCaseTupleV0])

SCSpecUDTUnionV0 == Struct(<<
  <<"doc", String(1024)>>, <<"lib", String(80)>>, <<"name", String(60)>>,
  <<"cases", List(SCSpecUDTUnionCaseV0, Unlimited)>> >>)

SCSpecEntry == Union(SCSpecEntryKind, [
  function_v0 |-> SCSpecFunctionV0, udt_struct_v0 |-> SCSpecUDTStructV0,
  udt_union_v0 |-> SCSpecUDTUnionV0, udt_enum_v0 |-> SCSpecUDTEnumV0,
  udt_error_enum_v0 |-> SCSpecUDTErrorEnumV0, event_v0 |-> SCSpecEventV0])

SCString == Typedef(String(Unlimited))

SCValType == Codes(<<
  "bool", "void", "error", "u32", "i32", "u64", "i64", "timepoint",
  "duration", "u128", "i128", "u256", "i256", "bytes", "string", "symbol",
  "vec", "map", "address", "contract_instance",
  "ledger_key_contract_instance", "ledger_key_nonce" >>)

SCVec == Typedef(List(Ref("SCVal"), Unlimited))

UInt128Parts == Decimal(Struct(<< <<"hi", Uint64>>, <<"lo", Uint64>> >>))

UInt256Parts == Decimal(Struct(<<
  <<"hi_hi", Uint64>>, <<"hi_lo", Uint64>>, <<"lo_hi", Uint64>>,
  <<"lo_lo", Uint64>> >>))

SCVal == UnionElseVoid(SCValType, [
  bool |-> Boolean, error |-> SCError, u32 |-> Uint32, i32 |-> Int32,
  u64 |-> Uint64, i64 |-> Int64, timepoint |-> TimePoint,
  duration |-> Duration, u128 |-> UInt128Parts, i128 |-> Int128Parts,
  u256 |-> UInt256Parts, i256 |-> Int256Parts, bytes |-> SCBytes,
  string |-> SCString, symbol |-> SCSymbol, vec |-> Optional(SCVec),
  map |-> Optional(SCMap), address |-> Ref("SCAddress"),
  contract_instance |-> SCContractInstance, ledger_key_nonce |-> SCNonceKey])

====
