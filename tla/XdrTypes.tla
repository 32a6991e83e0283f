---- MODULE XdrTypes ----
\* The types every other one is made of (xdr/Stellar-types.x): keys, hashes,
\* numbers, and the addresses that JSON writes as strkeys.
\* One definition for each generated class of stellar_sdk/xdr, under the name of
\* the class: the order, the limits and the JSON names of its parts are those of
\* its __init__, pack, unpack, to_json_dict and from_json_dict.

EXTENDS XdrDescriptions

PublicKeyType == Codes(<< "public_key_type_ed25519" >>)

Uint256 == Typedef(Opaque(32))

PublicKey == Strkey("G", 4, Union(PublicKeyType, [
  public_key_type_ed25519 |-> Uint256]))

AccountID == Strkey("G", 4, Typedef(PublicKey))

BinaryFuseFilterType == Codes(<< "8_bit", "16_bit", "32_bit" >>)

ClaimableBalanceIDType == Codes(<< "claimable_balance_id_type_v0" >>)

Hash == Typedef(Opaque(32))

ClaimableBalanceID == Strkey("B", 3, Union(ClaimableBalanceIDType, [
  claimable_balance_id_type_v0 |-> Hash]))

ContractID == Typedef(Hash)

CryptoKeyType == EnumOf(<<
  <<0, "ed25519">>, <<1, "pre_auth_tx">>, <<2, "hash_x">>,
  <<3, "ed25519_signed_payload">>, <<256, "muxed_ed25519">> >>)

Curve25519Public == Struct(<< <<"key", Opaque(32)>> >>)

Curve25519Secret == Struct(<< <<"key", Opaque(32)>> >>)

Uint64 == Typedef(UnsignedHyper)

Duration == Typedef(Uint64)

ExtensionPoint == Union(Versions(0), [v0 |-> Void])

HmacSha256Key == Struct(<< <<"key", Opaque(32)>> >>)

HmacSha256Mac == Struct(<< <<"mac", Opaque(32)>> >>)

Int32 == Typedef(Integer)

Int64 == Typedef(Hyper)

NodeID == Typedef(PublicKey)

PoolID == Strkey("L", 0, Typedef(Hash))

ShortHashSeed == Struct(<< <<"seed", Opaque(16)>> >>)

Uint32 == Typedef(UnsignedInteger)

SerializedBinaryFuseFilter == Struct(<<
  <<"type", BinaryFuseFilterType>>, <<"input_hash_seed", ShortHashSeed>>,
  <<"filter_seed", ShortHashSeed>>, <<"segment_length", Uint32>>,
  <<"segement_length_mask", Uint32>>, <<"segment_count", Uint32>>,
  <<"segment_count_length", Uint32>>, <<"fingerprint_length", Uint32>>,
  <<"fingerprints", VarOpaque(Unlimited)>> >>)

Signature == Typedef(VarOpaque(64))

SignatureHint == Typedef(Opaque(4))

SignerKeyEd25519SignedPayload == Struct(<<
  <<"ed25519", Uint256>>, <<"payload", VarOpaque(64)>> >>)

SignerKeyType == Codes(<<
  "ed25519", "pre_auth_tx", "hash_x", "ed25519_signed_payload" >>)

SignerKey == StrkeyUnion(SignerKeyType, [
  ed25519 |-> Strkey("G", 0, Uint256),
  pre_auth_tx |-> Strkey("T", 0, Uint256), hash_x |-> Strkey("X", 0, Uint256),
  ed25519_signed_payload |-> Strkey("P", 0, SignerKeyEd25519SignedPayload)])

TimePoint == Typedef(Uint64)

====
