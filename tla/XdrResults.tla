---- MODULE XdrResults ----
\* The results of transactions and of their operations
\* (xdr/Stellar-transaction.x).
\* One definition for each generated class of stellar_sdk/xdr, under the name of
\* the class: the order, the limits and the JSON names of its parts are those of
\* its __init__, pack, unpack, to_json_dict and from_json_dict.

EXTENDS XdrTransaction

AccountMergeResultCode == ErrorCodes(<<
  "success", "malformed", "no_account", "immutable_set", "has_sub_entries",
  "seqnum_too_far", "dest_full", "is_sponsor" >>)

AccountMergeResult == UnionElseVoid(AccountMergeResultCode, [
  success |-> Int64])

AllowTrustResultCode == ErrorCodes(<<
  "success", "malformed", "no_trust_line", "trust_not_required",
  "cant_revoke", "self_not_allowed", "low_reserve" >>)

AllowTrustResult == VoidUnion(AllowTrustResultCode)

BeginSponsoringFutureReservesResultCode == ErrorCodes(<<
  "success", "malformed", "already_sponsored", "recursive" >>)

BeginSponsoringFutureReservesResult ==
  VoidUnion(BeginSponsoringFutureReservesResultCode)

BumpSequenceResultCode == ErrorCodes(<< "success", "bad_seq" >>)

BumpSequenceResult == VoidUnion(BumpSequenceResultCode)

ChangeTrustResultCode == ErrorCodes(<<
  "success", "malformed", "no_issuer", "invalid_limit", "low_reserve",
  "self_not_allowed", "trust_line_missing", "cannot_delete",
  "not_auth_maintain_liabilities" >>)

ChangeTrustResult == VoidUnion(ChangeTrustResultCode)

ClaimAtomType == Codes(<< "v0", "order_book", "liquidity_pool" >>)

ClaimLiquidityAtom == Struct(<<
  <<"liquidity_pool_id", PoolID>>, <<"asset_sold", Ref("Asset")>>,
  <<"amount_sold", Int64>>, <<"asset_bought", Ref("Asset")>>,
  <<"amount_bought", Int64>> >>)

ClaimOfferAtom == Struct(<<
  <<"seller_id", AccountID>>, <<"offer_id", Int64>>,
  <<"asset_sold", Ref("Asset")>>, <<"amount_sold", Int64>>,
  <<"asset_bought", Ref("Asset")>>, <<"amount_bought", Int64>> >>)

ClaimOfferAtomV0 == Struct(<<
  <<"seller_ed25519", Uint256>>, <<"offer_id", Int64>>,
  <<"asset_sold", Ref("Asset")>>, <<"amount_sold", Int64>>,
  <<"asset_bought", Ref("Asset")>>, <<"amount_bought", Int64>> >>)

ClaimAtom == Union(ClaimAtomType, [
  v0 |-> ClaimOfferAtomV0, order_book |-> ClaimOfferAtom,
  liquidity_pool |-> ClaimLiquidityAtom])

ClaimClaimableBalanceResultCode == ErrorCodes(<<
  "success", "does_not_exist", "cannot_claim", "line_full", "no_trust",
  "not_authorized", "trustline_frozen" >>)

ClaimClaimableBalanceResult == VoidUnion(ClaimClaimableBalanceResultCode)

ClawbackClaimableBalanceResultCode == ErrorCodes(<<
  "success", "does_not_exist", "not_issuer", "not_clawback_enabled" >>)

ClawbackClaimableBalanceResult == VoidUnion(ClawbackClaimableBalanceResultCode)

ClawbackResultCode == ErrorCodes(<<
  "success", "malformed", "not_clawback_enabled", "no_trust",
  "underfunded" >>)

ClawbackResult == VoidUnion(ClawbackResultCode)

CreateAccountResultCode == ErrorCodes(<<
  "success", "malformed", "underfunded", "low_reserve", "already_exist" >>)

CreateAccountResult == VoidUnion(CreateAccountResultCode)

CreateClaimableBalanceResultCode == ErrorCodes(<<
  "success", "malformed", "low_reserve", "no_trust", "not_authorized",
  "underfunded" >>)

CreateClaimableBalanceResult ==
  UnionElseVoid(CreateClaimableBalanceResultCode, [
  success |-> ClaimableBalanceID])

EndSponsoringFutureReservesResultCode == ErrorCodes(<<
  "success", "not_sponsored" >>)

EndSponsoringFutureReservesResult ==
  VoidUnion(EndSponsoringFutureReservesResultCode)

ExtendFootprintTTLResultCode == ErrorCodes(<<
  "success", "malformed", "resource_limit_exceeded",
  "insufficient_refundable_fee" >>)

ExtendFootprintTTLResult == VoidUnion(ExtendFootprintTTLResultCode)

InflationPayout == Struct(<<
  <<"destination", AccountID>>, <<"amount", Int64>> >>)

InflationResultCode == ErrorCodes(<< "success", "not_time" >>)

InflationResult == Union(InflationResultCode, [
  success |-> List(InflationPayout, Unlimited), not_time |-> Void])

InnerTransactionResultExt == Union(Versions(0), [v0 |-> Void])

OperationResultCode == ErrorCodes(<<
  "opinner", "opbad_auth", "opno_account", "opnot_supported",
  "optoo_many_subentries", "opexceeded_work_limit",
  "optoo_many_sponsoring" >>)

InvokeHostFunctionResultCode == ErrorCodes(<<
  "success", "malformed", "trapped", "resource_limit_exceeded",
  "entry_archived", "insufficient_refundable_fee" >>)

InvokeHostFunctionResult == UnionElseVoid(InvokeHostFunctionResultCode, [
  success |-> Hash])

LiquidityPoolDepositResultCode == ErrorCodes(<<
  "success", "malformed", "no_trust", "not_authorized", "underfunded",
  "line_full", "bad_price", "pool_full", "trustline_frozen" >>)

LiquidityPoolDepositResult == VoidUnion(LiquidityPoolDepositResultCode)

LiquidityPoolWithdrawResultCode == ErrorCodes(<<
  "success", "malformed", "no_trust", "underfunded", "line_full",
  "under_minimum", "trustline_frozen" >>)

LiquidityPoolWithdrawResult == VoidUnion(LiquidityPoolWithdrawResultCode)

ManageBuyOfferResultCode == ErrorCodes(<<
  "success", "malformed", "sell_no_trust", "buy_no_trust",
  "sell_not_authorized", "buy_not_authorized", "line_full", "underfunded",
  "cross_self", "sell_no_issuer", "buy_no_issuer", "not_found",
  "low_reserve" >>)

ManageOfferEffect == Codes(<< "created", "updated", "deleted" >>)

ManageOfferSuccessResultOffer == Union(ManageOfferEffect, [
  created |-> OfferEntry, updated |-> OfferEntry, deleted |-> Void])

ManageOfferSuccessResult == Struct(<<
  <<"offers_claimed", List(ClaimAtom, Unlimited)>>,
  <<"offer", ManageOfferSuccessResultOffer>> >>)

ManageBuyOfferResult == UnionElseVoid(ManageBuyOfferResultCode, [
  success |-> ManageOfferSuccessResult])

ManageDataResultCode == ErrorCodes(<<
  "success", "not_supported_yet", "name_not_found", "low_reserve",
  "invalid_name" >>)

ManageDataResult == VoidUnion(ManageDataResultCode)

ManageSellOfferResultCode == ErrorCodes(<<
  "success", "malformed", "sell_no_trust", "buy_no_trust",
  "sell_not_authorized", "buy_not_authorized", "line_full", "underfunded",
  "cross_self", "sell_no_issuer", "buy_no_issuer", "not_found",
  "low_reserve" >>)

ManageSellOfferResult == UnionElseVoid(ManageSellOfferResultCode, [
  success |-> ManageOfferSuccessResult])

PathPaymentStrictReceiveResultCode == ErrorCodes(<<
  "success", "malformed", "underfunded", "src_no_trust", "src_not_authorized",
  "no_destination", "no_trust", "not_authorized", "line_full", "no_issuer",
  "too_few_offers", "offer_cross_self", "over_sendmax" >>)

SimplePaymentResult == Struct(<<
  <<"destination", AccountID>>, <<"asset", Ref("Asset")>>,
  <<"amount", Int64>> >>)

PathPaymentStrictReceiveResultSuccess == Struct(<<
  <<"offers", List(ClaimAtom, Unlimited)>>,
  <<"last", SimplePaymentResult>> >>)

PathPaymentStrictReceiveResult ==
  UnionElseVoid(PathPaymentStrictReceiveResultCode, [
  success |-> PathPaymentStrictReceiveResultSuccess,
  no_issuer |-> Ref("Asset")])

PathPaymentStrictSendResultCode == ErrorCodes(<<
  "success", "malformed", "underfunded", "src_no_trust", "src_not_authorized",
  "no_destination", "no_trust", "not_authorized", "line_full", "no_issuer",
  "too_few_offers", "offer_cross_self", "under_destmin" >>)

PathPaymentStrictSendResultSuccess == Struct(<<
  <<"offers", List(ClaimAtom, Unlimited)>>,
  <<"last", SimplePaymentResult>> >>)

PathPaymentStrictSendResult == UnionElseVoid(PathPaymentStrictSendResultCode, [
  success |-> PathPaymentStrictSendResultSuccess, no_issuer |-> Ref("Asset")])

PaymentResultCode == ErrorCodes(<<
  "success", "malformed", "underfunded", "src_no_trust", "src_not_authorized",
  "no_destination", "no_trust", "not_authorized", "line_full", "no_issuer" >>)

PaymentResult == VoidUnion(PaymentResultCode)

RestoreFootprintResultCode == ErrorCodes(<<
  "success", "malformed", "resource_limit_exceeded",
  "insufficient_refundable_fee" >>)

RestoreFootprintResult == VoidUnion(RestoreFootprintResultCode)

RevokeSponsorshipResultCode == ErrorCodes(<<
  "success", "does_not_exist", "not_sponsor", "low_reserve",
  "only_transferable", "malformed" >>)

RevokeSponsorshipResult == VoidUnion(RevokeSponsorshipResultCode)

SetOptionsResultCode == ErrorCodes(<<
  "success", "low_reserve", "too_many_signers", "bad_flags",
  "invalid_inflation", "cant_change", "unknown_flag",
  "threshold_out_of_range", "bad_signer", "invalid_home_domain",
  "auth_revocable_required" >>)

SetOptionsResult == VoidUnion(SetOptionsResultCode)

SetTrustLineFlagsResultCode == ErrorCodes(<<
  "success", "malformed", "no_trust_line", "cant_revoke", "invalid_state",
  "low_reserve" >>)

SetTrustLineFlagsResult == VoidUnion(SetTrustLineFlagsResultCode)

OperationResultTr == Union(OperationType, [
  create_account |-> CreateAccountResult, payment |-> PaymentResult,
  path_payment_strict_receive |-> PathPaymentStrictReceiveResult,
  manage_sell_offer |-> ManageSellOfferResult,
  create_passive_sell_offer |-> ManageSellOfferResult,
  set_options |-> SetOptionsResult, change_trust |-> ChangeTrustResult,
  allow_trust |-> AllowTrustResult, account_merge |-> AccountMergeResult,
  inflation |-> InflationResult, manage_data |-> ManageDataResult,
  bump_sequence |-> BumpSequenceResult,
  manage_buy_offer |-> ManageBuyOfferResult,
  path_payment_strict_send |-> PathPaymentStrictSendResult,
  create_claimable_balance |-> CreateClaimableBalanceResult,
  claim_claimable_balance |-> ClaimClaimableBalanceResult,
  begin_sponsoring_future_reserves |-> BeginSponsoringFutureReservesResult,
  end_sponsoring_future_reserves |-> EndSponsoringFutureReservesResult,
  revoke_sponsorship |-> RevokeSponsorshipResult, clawback |-> ClawbackResult,
  clawback_claimable_balance |-> ClawbackClaimableBalanceResult,
  set_trust_line_flags |-> SetTrustLineFlagsResult,
  liquidity_pool_deposit |-> LiquidityPoolDepositResult,
  liquidity_pool_withdraw |-> LiquidityPoolWithdrawResult,
  invoke_host_function |-> InvokeHostFunctionResult,
  extend_footprint_ttl |-> ExtendFootprintTTLResult,
  restore_footprint |-> RestoreFootprintResult])

OperationResult == UnionElseVoid(OperationResultCode, [
  opinner |-> OperationResultTr])

TransactionResultCode == CodesFrom(1, -1, <<
  "txfee_bump_inner_success", "txsuccess", "txfailed", "txtoo_early",
  "txtoo_late", "txmissing_operation", "txbad_seq", "txbad_auth",
  "txinsufficient_balance", "txno_account", "txinsufficient_fee",
  "txbad_auth_extra", "txinternal_error", "txnot_supported",
  "txfee_bump_inner_failed", "txbad_sponsorship", "txbad_min_seq_age_or_gap",
  "txmalformed", "txsoroban_invalid", "txfrozen_key_accessed" >>)

InnerTransactionResultResult == Union(TransactionResultCode, [
  txsuccess |-> List(Ref("OperationResult"), Unlimited),
  txfailed |-> List(Ref("OperationResult"), Unlimited)] @@
  Voids({
    "txtoo_early", "txtoo_late", "txmissing_operation", "txbad_seq",
    "txbad_auth", "txinsufficient_balance", "txno_account",
    "txinsufficient_fee", "txbad_auth_extra", "txinternal_error",
    "txnot_supported", "txbad_sponsorship", "txbad_min_seq_age_or_gap",
    "txmalformed", "txsoroban_invalid", "txfrozen_key_accessed"}))

InnerTransactionResult == Struct(<<
  <<"fee_charged", Int64>>, <<"result", InnerTransactionResultResult>>,
  <<"ext", InnerTransactionResultExt>> >>)

InnerTransactionResultPair == Struct(<<
  <<"transaction_hash", Hash>>, <<"result", InnerTransactionResult>> >>)

TransactionResultExt == Union(Versions(0), [v0 |-> Void])

TransactionResultResult == UnionElseVoid(TransactionResultCode, [
  txfee_bump_inner_success |-> InnerTransactionResultPair,
  txfee_bump_inner_failed |-> InnerTransactionResultPair,
  txsuccess |-> List(Ref("OperationResult"), Unlimited),
  txfailed |-> List(Ref("OperationResult"), Unlimited)])

TransactionResult == Struct(<<
  <<"fee_charged", Int64>>, <<"result", TransactionResultResult>>,
  <<"ext", TransactionResultExt>> >>)

====
