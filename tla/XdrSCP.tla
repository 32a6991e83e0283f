---- MODULE XdrSCP ----
\* The messages of the consensus protocol (xdr/Stellar-SCP.x).
\* One definition for each generated class of stellar_sdk/xdr, under the name of
\* the class: the order, the limits and the JSON names of its parts are those of
\* its __init__, pack, unpack, to_json_dict and from_json_dict.

EXTENDS XdrTypes

Value == Typedef(VarOpaque(Unlimited))

SCPBallot == Struct(<< <<"counter", Uint32>>, <<"value", Value>> >>)

SCPNomination == Struct(<<
  <<"quorum_set_hash", Hash>>, <<"votes", List(Value, Unlimited)>>,
  <<"accepted", List(Value, Unlimited)>> >>)

SCPStatementConfirm == Struct(<<
  <<"ballot", SCPBallot>>, <<"n_prepared", Uint32>>, <<"n_commit", Uint32>>,
  <<"n_h", Uint32>>, <<"quorum_set_hash", Hash>> >>)

SCPStatementExternalize == Struct(<<
  <<"commit", SCPBallot>>, <<"n_h", Uint32>>,
  <<"commit_quorum_set_hash", Hash>> >>)

SCPStatementPrepare == Struct(<<
  <<"quorum_set_hash", Hash>>, <<"ballot", SCPBallot>>,
  <<"prepared", Optional(SCPBallot)>>,
  <<"prepared_prime", Optional(SCPBallot)>>, <<"n_c", Uint32>>,
  <<"n_h", Uint32>> >>)

SCPStatementType == Codes(<<
  "prepare", "confirm", "externalize", "nominate" >>)

SCPStatementPledges == Union(SCPStatementType, [
  prepare |-> SCPStatementPrepare, confirm |-> SCPStatementConfirm,
  externalize |-> SCPStatementExternalize, nominate |-> SCPNomination])

SCPStatement == Struct(<<
  <<"node_id", NodeID>>, <<"slot_index", Uint64>>,
  <<"pledges", SCPStatementPledges>> >>)

SCPEnvelope == Struct(<<
  <<"statement", SCPStatement>>, <<"signature", Signature>> >>)

SCPQuorumSet == Struct(<<
  <<"threshold", Uint32>>, <<"validators", List(NodeID, Unlimited)>>,
  <<"inner_sets", List(Ref("SCPQuorumSet"), Unlimited)>> >>)

====
