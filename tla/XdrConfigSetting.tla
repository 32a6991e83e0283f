---- MODULE XdrConfigSetting ----
\* The network's settings (xdr/Stellar-contract-config-setting.x).
\* One definition for each generated class of stellar_sdk/xdr, under the name of
\* the class: the order, the limits and the JSON names of its parts are those of
\* its __init__, pack, unpack, to_json_dict and from_json_dict.

EXTENDS XdrTypes

ConfigSettingContractBandwidthV0 == Struct(<<
  <<"ledger_max_txs_size_bytes", Uint32>>, <<"tx_max_size_bytes", Uint32>>,
  <<"fee_tx_size1_kb", Int64>> >>)

ConfigSettingContractComputeV0 == Struct(<<
  <<"ledger_max_instructions", Int64>>, <<"tx_max_instructions", Int64>>,
  <<"fee_rate_per_instructions_increment", Int64>>,
  <<"tx_memory_limit", Uint32>> >>)

ConfigSettingContractEventsV0 == Struct(<<
  <<"tx_max_contract_events_size_bytes", Uint32>>,
  <<"fee_contract_events1_kb", Int64>> >>)

ConfigSettingContractExecutionLanesV0 == Struct(<<
  <<"ledger_max_tx_count", Uint32>> >>)

ConfigSettingContractHistoricalDataV0 == Struct(<<
  <<"fee_historical1_kb", Int64>> >>)

ConfigSettingContractLedgerCostExtV0 == Struct(<<
  <<"tx_max_footprint_entries", Uint32>>, <<"fee_write1_kb", Int64>> >>)

ConfigSettingContractLedgerCostV0 == Struct(<<
  <<"ledger_max_disk_read_entries", Uint32>>,
  <<"ledger_max_disk_read_bytes", Uint32>>,
  <<"ledger_max_write_ledger_entries", Uint32>>,
  <<"ledger_max_write_bytes", Uint32>>,
  <<"tx_max_disk_read_entries", Uint32>>,
  <<"tx_max_disk_read_bytes", Uint32>>,
  <<"tx_max_write_ledger_entries", Uint32>>, <<"tx_max_write_bytes", Uint32>>,
  <<"fee_disk_read_ledger_entry", Int64>>,
  <<"fee_write_ledger_entry", Int64>>, <<"fee_disk_read1_kb", Int64>>,
  <<"soroban_state_target_size_bytes", Int64>>,
  <<"rent_fee1_kb_soroban_state_size_low", Int64>>,
  <<"rent_fee1_kb_soroban_state_size_high", Int64>>,
  <<"soroban_state_rent_fee_growth_factor", Uint32>> >>)

ConfigSettingContractParallelComputeV0 == Struct(<<
  <<"ledger_max_dependent_tx_clusters", Uint32>> >>)

ConfigSettingID == Codes(<<
  "contract_max_size_bytes", "contract_compute_v0", "contract_ledger_cost_v0",
  "contract_historical_data_v0", "contract_events_v0",
  "contract_bandwidth_v0", "contract_cost_params_cpu_instructions",
  "contract_cost_params_memory_bytes", "contract_data_key_size_bytes",
  "contract_data_entry_size_bytes", "state_archival",
  "contract_execution_lanes", "live_soroban_state_size_window",
  "eviction_iterator", "contract_parallel_compute_v0",
  "contract_ledger_cost_ext_v0", "scp_timing", "frozen_ledger_keys",
  "frozen_ledger_keys_delta", "freeze_bypass_txs",
  "freeze_bypass_txs_delta" >>)

ConfigSettingSCPTiming == Struct(<<
  <<"ledger_target_close_time_milliseconds", Uint32>>,
  <<"nomination_timeout_initial_milliseconds", Uint32>>,
  <<"nomination_timeout_increment_milliseconds", Uint32>>,
  <<"ballot_timeout_initial_milliseconds", Uint32>>,
  <<"ballot_timeout_increment_milliseconds", Uint32>> >>)

ContractCostParamEntry == Struct(<<
  <<"ext", ExtensionPoint>>, <<"const_term", Int64>>,
  <<"linear_term", Int64>> >>)

ContractCostParams == Typedef(List(ContractCostParamEntry, 1024))

EvictionIterator == Struct(<<
  <<"bucket_list_level", Uint32>>, <<"is_curr_bucket", Boolean>>,
  <<"bucket_file_offset", Uint64>> >>)

FreezeBypassTxs == Struct(<< <<"tx_hashes", List(Hash, Unlimited)>> >>)

FreezeBypassTxsDelta == Struct(<<
  <<"add_txs", List(Hash, Unlimited)>>,
  <<"remove_txs", List(Hash, Unlimited)>> >>)

EncodedLedgerKey == Typedef(VarOpaque(Unlimited))

FrozenLedgerKeys == Struct(<<
  <<"keys", List(EncodedLedgerKey, Unlimited)>> >>)

FrozenLedgerKeysDelta == Struct(<<
  <<"keys_to_freeze", List(EncodedLedgerKey, Unlimited)>>,
  <<"keys_to_unfreeze", List(EncodedLedgerKey, Unlimited)>> >>)

StateArchivalSettings == Struct(<<
  <<"max_entry_ttl", Uint32>>, <<"min_temporary_ttl", Uint32>>,
  <<"min_persistent_ttl", Uint32>>,
  <<"persistent_rent_rate_denominator", Int64>>,
  <<"temp_rent_rate_denominator", Int64>>,
  <<"max_entries_to_archive", Uint32>>,
  <<"live_soroban_state_size_window_sample_size", Uint32>>,
  <<"live_soroban_state_size_window_sample_period", Uint32>>,
  <<"eviction_scan_size", Uint32>>,
  <<"starting_eviction_scan_level", Uint32>> >>)

ConfigSettingEntry == Union(ConfigSettingID, [
  contract_max_size_bytes |-> Uint32,
  contract_compute_v0 |-> ConfigSettingContractComputeV0,
  contract_ledger_cost_v0 |-> ConfigSettingContractLedgerCostV0,
  contract_historical_data_v0 |-> ConfigSettingContractHistoricalDataV0,
  contract_events_v0 |-> ConfigSettingContractEventsV0,
  contract_bandwidth_v0 |-> ConfigSettingContractBandwidthV0,
  contract_cost_params_cpu_instructions |-> ContractCostParams,
  contract_cost_params_memory_bytes |-> ContractCostParams,
  contract_data_key_size_bytes |-> Uint32,
  contract_data_entry_size_bytes |-> Uint32,
  state_archival |-> StateArchivalSettings,
  contract_execution_lanes |-> ConfigSettingContractExecutionLanesV0,
  live_soroban_state_size_window |-> List(Uint64, Unlimited),
  eviction_iterator |-> EvictionIterator,
  contract_parallel_compute_v0 |-> ConfigSettingContractParallelComputeV0,
  contract_ledger_cost_ext_v0 |-> ConfigSettingContractLedgerCostExtV0,
  scp_timing |-> ConfigSettingSCPTiming,
  frozen_ledger_keys |-> FrozenLedgerKeys,
  frozen_ledger_keys_delta |-> FrozenLedgerKeysDelta,
  freeze_bypass_txs |-> FreezeBypassTxs,
  freeze_bypass_txs_delta |-> FreezeBypassTxsDelta])

ContractCostType == Codes(<<
  "wasminsnexec", "memalloc", "memcpy", "memcmp", "dispatchhostfunction",
  "visitobject", "valser", "valdeser", "computesha256hash",
  "computeed25519pubkey", "verifyed25519sig", "vminstantiation",
  "vmcachedinstantiation", "invokevmfunction", "computekeccak256hash",
  "decodeecdsacurve256sig", "recoverecdsasecp256k1key", "int256addsub",
  "int256mul", "int256div", "int256pow", "int256shift", "chacha20drawbytes",
  "parsewasminstructions", "parsewasmfunctions", "parsewasmglobals",
  "parsewasmtableentries", "parsewasmtypes", "parsewasmdatasegments",
  "parsewasmelemsegments", "parsewasmimports", "parsewasmexports",
  "parsewasmdatasegmentbytes", "instantiatewasminstructions",
  "instantiatewasmfunctions", "instantiatewasmglobals",
  "instantiatewasmtableentries", "instantiatewasmtypes",
  "instantiatewasmdatasegments", "instantiatewasmelemsegments",
  "instantiatewasmimports", "instantiatewasmexports",
  "instantiatewasmdatasegmentbytes", "sec1decodepointuncompressed",
  "verifyecdsasecp256r1sig", "bls12381encodefp", "bls12381decodefp",
  "bls12381g1checkpointoncurve", "bls12381g1checkpointinsubgroup",
  "bls12381g2checkpointoncurve", "bls12381g2checkpointinsubgroup",
  "bls12381g1projectivetoaffine", "bls12381g2projectivetoaffine",
  "bls12381g1add", "bls12381g1mul", "bls12381g1msm", "bls12381mapfptog1",
  "bls12381hashtog1", "bls12381g2add", "bls12381g2mul", "bls12381g2msm",
  "bls12381mapfp2tog2", "bls12381hashtog2", "bls12381pairing",
  "bls12381frfromu256", "bls12381frtou256", "bls12381fraddsub",
  "bls12381frmul", "bls12381frpow", "bls12381frinv", "bn254encodefp",
  "bn254decodefp", "bn254g1checkpointoncurve", "bn254g2checkpointoncurve",
  "bn254g2checkpointinsubgroup", "bn254g1projectivetoaffine", "bn254g1add",
  "bn254g1mul", "bn254pairing", "bn254frfromu256", "bn254frtou256",
  "bn254fraddsub", "bn254frmul", "bn254frpow", "bn254frinv", "bn254g1msm" >>)

====
