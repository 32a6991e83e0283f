---- MODULE XdrOverlay ----
\* The messages of the peer-to-peer protocol (xdr/Stellar-overlay.x), and what a
\* node stores or exports (-internal.x, -exporter.x).
\* One definition for each generated class of stellar_sdk/xdr, under the name of
\* the class: the order, the limits and the JSON names of its parts are those of
\* its __init__, pack, unpack, to_json_dict and from_json_dict.

EXTENDS XdrLedger

Auth == Struct(<< <<"flags", Integer>> >>)

AuthCert == Struct(<<
  <<"pubkey", Curve25519Public>>, <<"expiration", Uint64>>,
  <<"sig", Signature>> >>)

MessageType == EnumOf(<<
  <<0, "error_msg">>, <<2, "auth">>, <<3, "dont_have">>, <<5, "peers">>,
  <<6, "get_tx_set">>, <<7, "tx_set">>, <<17, "generalized_tx_set">>,
  <<8, "transaction">>, <<9, "get_scp_quorumset">>, <<10, "scp_quorumset">>,
  <<11, "scp_message">>, <<12, "get_scp_state">>, <<13, "hello">>,
  <<16, "send_more">>, <<20, "send_more_extended">>, <<18, "flood_advert">>,
  <<19, "flood_demand">>, <<21, "time_sliced_survey_request">>,
  <<22, "time_sliced_survey_response">>,
  <<23, "time_sliced_survey_start_collecting">>,
  <<24, "time_sliced_survey_stop_collecting">> >>)

DontHave == Struct(<< <<"type", MessageType>>, <<"req_hash", Uint256>> >>)

ErrorCode == Codes(<< "misc", "data", "conf", "auth", "load" >>)

Error == Struct(<< <<"code", ErrorCode>>, <<"msg", String(100)>> >>)

TxAdvertVector == Typedef(List(Hash, 1000))

FloodAdvert == Struct(<< <<"tx_hashes", TxAdvertVector>> >>)

TxDemandVector == Typedef(List(Hash, 1000))

FloodDemand == Struct(<< <<"tx_hashes", TxDemandVector>> >>)

Hello == Struct(<<
  <<"ledger_version", Uint32>>, <<"overlay_version", Uint32>>,
  <<"overlay_min_version", Uint32>>, <<"network_id", Hash>>,
  <<"version_str", String(100)>>, <<"listening_port", Integer>>,
  <<"peer_id", NodeID>>, <<"cert", AuthCert>>, <<"nonce", Uint256>> >>)

IPAddrType == Codes(<< "ipv4", "ipv6" >>)

PeerAddressIp == Union(IPAddrType, [ipv4 |-> Opaque(4), ipv6 |-> Opaque(16)])

PeerAddress == Struct(<<
  <<"ip", PeerAddressIp>>, <<"port", Uint32>>, <<"num_failures", Uint32>> >>)

SendMore == Struct(<< <<"num_messages", Uint32>> >>)

SendMoreExtended == Struct(<<
  <<"num_messages", Uint32>>, <<"num_bytes", Uint32>> >>)

SurveyMessageCommandType == EnumOf(<< <<1, "time_sliced_survey_topology">> >>)

SurveyRequestMessage == Struct(<<
  <<"surveyor_peer_id", NodeID>>, <<"surveyed_peer_id", NodeID>>,
  <<"ledger_num", Uint32>>, <<"encryption_key", Curve25519Public>>,
  <<"command_type", SurveyMessageCommandType>> >>)

TimeSlicedSurveyRequestMessage == Struct(<<
  <<"request", SurveyRequestMessage>>, <<"nonce", Uint32>>,
  <<"inbound_peers_index", Uint32>>, <<"outbound_peers_index", Uint32>> >>)

SignedTimeSlicedSurveyRequestMessage == Struct(<<
  <<"request_signature", Signature>>,
  <<"request", TimeSlicedSurveyRequestMessage>> >>)

EncryptedBody == Typedef(VarOpaque(64000))

SurveyResponseMessage == Struct(<<
  <<"surveyor_peer_id", NodeID>>, <<"surveyed_peer_id", NodeID>>,
  <<"ledger_num", Uint32>>, <<"command_type", SurveyMessageCommandType>>,
  <<"encrypted_body", EncryptedBody>> >>)

TimeSlicedSurveyResponseMessage == Struct(<<
  <<"response", SurveyResponseMessage>>, <<"nonce", Uint32>> >>)

SignedTimeSlicedSurveyResponseMessage == Struct(<<
  <<"response_signature", Signature>>,
  <<"response", TimeSlicedSurveyResponseMessage>> >>)

TimeSlicedSurveyStartCollectingMessage == Struct(<<
  <<"surveyor_id", NodeID>>, <<"nonce", Uint32>>, <<"ledger_num", Uint32>> >>)

SignedTimeSlicedSurveyStartCollectingMessage == Struct(<<
  <<"signature", Signature>>,
  <<"start_collecting", TimeSlicedSurveyStartCollectingMessage>> >>)

TimeSlicedSurveyStopCollectingMessage == Struct(<<
  <<"surveyor_id", NodeID>>, <<"nonce", Uint32>>, <<"ledger_num", Uint32>> >>)

SignedTimeSlicedSurveyStopCollectingMessage == Struct(<<
  <<"signature", Signature>>,
  <<"stop_collecting", TimeSlicedSurveyStopCollectingMessage>> >>)

StellarMessage == Union(MessageType, [
  error_msg |-> Error, hello |-> Hello, auth |-> Auth, dont_have |-> DontHave,
  peers |-> List(PeerAddress, 100), get_tx_set |-> Uint256,
  tx_set |-> TransactionSet, generalized_tx_set |-> GeneralizedTransactionSet,
  transaction |-> Ref("TransactionEnvelope"),
  time_sliced_survey_request |-> SignedTimeSlicedSurveyRequestMessage,
  time_sliced_survey_response |-> SignedTimeSlicedSurveyResponseMessage,
  time_sliced_survey_start_collecting |->
    SignedTimeSlicedSurveyStartCollectingMessage,
  time_sliced_survey_stop_collecting |->
    SignedTimeSlicedSurveyStopCollectingMessage,
  get_scp_quorumset |-> Uint256, scp_quorumset |-> SCPQuorumSet,
  scp_message |-> SCPEnvelope, get_scp_state |-> Uint32,
  send_more |-> SendMore, send_more_extended |-> SendMoreExtended,
  flood_advert |-> FloodAdvert, flood_demand |-> FloodDemand])

AuthenticatedMessageV0 == Struct(<<
  <<"sequence", Uint64>>, <<"message", StellarMessage>>,
  <<"mac", HmacSha256Mac>> >>)

AuthenticatedMessage == Union(Versions(0), [v0 |-> AuthenticatedMessageV0])

LedgerCloseMetaBatch == Struct(<<
  <<"start_sequence", Uint32>>, <<"end_sequence", Uint32>>,
  <<"ledger_close_metas", List(LedgerCloseMeta, Unlimited)>> >>)

PeerStats == Struct(<<
  <<"id", NodeID>>, <<"version_str", String(100)>>,
  <<"messages_read", Uint64>>, <<"messages_written", Uint64>>,
  <<"bytes_read", Uint64>>, <<"bytes_written", Uint64>>,
  <<"seconds_connected", Uint64>>, <<"unique_flood_bytes_recv", Uint64>>,
  <<"duplicate_flood_bytes_recv", Uint64>>,
  <<"unique_fetch_bytes_recv", Uint64>>,
  <<"duplicate_fetch_bytes_recv", Uint64>>,
  <<"unique_flood_message_recv", Uint64>>,
  <<"duplicate_flood_message_recv", Uint64>>,
  <<"unique_fetch_message_recv", Uint64>>,
  <<"duplicate_fetch_message_recv", Uint64>> >>)

StoredTransactionSet == Union(Versions(1), [
  v0 |-> TransactionSet, v1 |-> GeneralizedTransactionSet])

PersistedSCPStateV0 == Struct(<<
  <<"scp_envelopes", List(SCPEnvelope, Unlimited)>>,
  <<"quorum_sets", List(SCPQuorumSet, Unlimited)>>,
  <<"tx_sets", List(StoredTransactionSet, Unlimited)>> >>)

PersistedSCPStateV1 == Struct(<<
  <<"scp_envelopes", List(SCPEnvelope, Unlimited)>>,
  <<"quorum_sets", List(SCPQuorumSet, Unlimited)>> >>)

PersistedSCPState == Union(Versions(1), [
  v0 |-> PersistedSCPStateV0, v1 |-> PersistedSCPStateV1])

StoredDebugTransactionSet == Struct(<<
  <<"tx_set", StoredTransactionSet>>, <<"ledger_seq", Uint32>>,
  <<"scp_value", StellarValue>> >>)

SurveyMessageResponseType == EnumOf(<<
  <<2, "survey_topology_response_v2">> >>)

TimeSlicedNodeData == Struct(<<
  <<"added_authenticated_peers", Uint32>>,
  <<"dropped_authenticated_peers", Uint32>>,
  <<"total_inbound_peer_count", Uint32>>,
  <<"total_outbound_peer_count", Uint32>>,
  <<"p75_scp_first_to_self_latency_ms", Uint32>>,
  <<"p75_scp_self_to_other_latency_ms", Uint32>>,
  <<"lost_sync_count", Uint32>>, <<"is_validator", Boolean>>,
  <<"max_inbound_peer_count", Uint32>>,
  <<"max_outbound_peer_count", Uint32>> >>)

TimeSlicedPeerData == Struct(<<
  <<"peer_stats", PeerStats>>, <<"average_latency_ms", Uint32>> >>)

TimeSlicedPeerDataList == Typedef(List(TimeSlicedPeerData, 25))

TopologyResponseBodyV2 == Struct(<<
  <<"inbound_peers", TimeSlicedPeerDataList>>,
  <<"outbound_peers", TimeSlicedPeerDataList>>,
  <<"node_data", TimeSlicedNodeData>> >>)

SurveyResponseBody == Union(SurveyMessageResponseType, [
  survey_topology_response_v2 |-> TopologyResponseBodyV2])

====
