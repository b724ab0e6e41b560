------------------------------- MODULE WifiMsg -------------------------------
(***************************************************************************)
(* The requests the AIC8800 driver sends to the Wi-Fi firmware             *)
(* (drivers/wifi/aic8800_fdrv/rwnx_msg_tx.c).                              *)
(*                                                                         *)
(* Each rwnx_send_* function is the set of message sequences one call can  *)
(* hand to rwnx_send_msg.  The parameters of the messages are abstracted:  *)
(* what the command manager tells apart is the message's id, whether a     *)
(* confirmation is awaited, which one, and whether the caller passes a     *)
(* buffer for it.  Ids are written without their _REQ and _CFM suffixes.   *)
(* A call that sends nothing (a disabled feature, a bad parameter) is the  *)
(* empty sequence; a failed allocation ends a call early and is left out.  *)
(***************************************************************************)
EXTENDS Sequences

Cfm(id, reqid, buf) == [id |-> id, reqcfm |-> TRUE, reqid |-> reqid, buf |-> buf]
Ntf(id) == [id |-> id, reqcfm |-> FALSE, reqid |-> "none", buf |-> FALSE]

(***************************************************************************)
(* The confirmation the firmware answers a request with: the one of the    *)
(* same name in lmac_msg.h, except that a scan is acknowledged by          *)
(* SCANU_START_CFM_ADDTIONAL (SCANU_START_CFM comes when the scan is over).*)
(***************************************************************************)
Confirmation(id) == IF id = "SCANU_START" THEN "SCANU_START_ADDTIONAL" ELSE id

rwnx_send_reset == {<<Cfm("MM_RESET", "MM_RESET", FALSE)>>}
rwnx_send_start == {<<Cfm("MM_START", "MM_START", FALSE)>>}
rwnx_send_version_req == {<<Cfm("MM_VERSION", "MM_VERSION", TRUE)>>}
rwnx_send_add_if == {<<Cfm("MM_ADD_IF", "MM_ADD_IF", TRUE)>>}
rwnx_send_remove_if == {<<Cfm("MM_REMOVE_IF", "MM_REMOVE_IF", FALSE)>>}
rwnx_send_set_channel == {<<Cfm("MM_SET_CHANNEL", "MM_SET_CHANNEL", TRUE)>>}
rwnx_send_key_add == {<<Cfm("MM_KEY_ADD", "MM_KEY_ADD", TRUE)>>}
rwnx_send_key_del == {<<Cfm("MM_KEY_DEL", "MM_KEY_DEL", FALSE)>>}
rwnx_send_bcn == {<<Cfm("APM_SET_BEACON_IE", "APM_SET_BEACON_IE", FALSE)>>}
rwnx_send_bcn_change == {<<Cfm("MM_BCN_CHANGE", "MM_BCN_CHANGE", FALSE)>>}
rwnx_send_roc == {<<Cfm("MM_REMAIN_ON_CHANNEL", "MM_REMAIN_ON_CHANNEL", TRUE)>>}
rwnx_send_cancel_roc == {<<Cfm("MM_REMAIN_ON_CHANNEL", "MM_REMAIN_ON_CHANNEL", FALSE)>>}
rwnx_send_set_power == {<<Cfm("MM_SET_POWER", "MM_SET_POWER", TRUE)>>}
rwnx_send_set_edca == {<<Cfm("MM_SET_EDCA", "MM_SET_EDCA", FALSE)>>}
rwnx_send_arpoffload_en_req == {<<Cfm("MM_SET_ARPOFFLOAD", "MM_SET_ARPOFFLOAD", FALSE)>>}
rwnx_send_disable_agg_req == {<<Cfm("MM_SET_AGG_DISABLE", "MM_SET_AGG_DISABLE", FALSE)>>}
rwnx_send_coex_req == {<<Cfm("MM_SET_COEX", "MM_SET_COEX", FALSE)>>}
rwnx_send_rf_config_req == {<<Cfm("MM_SET_RF_CONFIG", "MM_SET_RF_CONFIG", FALSE)>>}
rwnx_send_rf_calib_req == {<<Cfm("MM_SET_RF_CALIB", "MM_SET_RF_CALIB", TRUE)>>}
rwnx_send_get_macaddr_req == {<<Cfm("MM_GET_MAC_ADDR", "MM_GET_MAC_ADDR", TRUE)>>}
rwnx_send_get_sta_info_req == {<<Cfm("MM_GET_STA_INFO", "MM_GET_STA_INFO", TRUE)>>}
rwnx_send_set_stack_start_req == {<<Cfm("MM_SET_STACK_START", "MM_SET_STACK_START", TRUE)>>}
rwnx_send_get_temp_req == {<<Cfm("MM_SET_VENDOR_SWCONFIG", "MM_SET_VENDOR_SWCONFIG", TRUE)>>}
rwnx_send_vendor_hwconfig_req ==
    {<<Cfm("MM_SET_VENDOR_HWCONFIG", "MM_SET_VENDOR_HWCONFIG", b)>> : b \in BOOLEAN}
rwnx_send_vendor_swconfig_req ==
    {<<>>, <<Cfm("MM_SET_VENDOR_SWCONFIG", "MM_SET_VENDOR_SWCONFIG", TRUE)>>}
rwnx_send_vendor_hwconfig_req_x2 ==
    {<<>>} \cup {<<Cfm("MM_SET_VENDOR_HWCONFIG", "MM_SET_VENDOR_HWCONFIG", b)>> : b \in BOOLEAN}
rwnx_send_vendor_swconfig_req_x2 ==
    {<<>>, <<Cfm("MM_SET_VENDOR_SWCONFIG", "MM_SET_VENDOR_SWCONFIG", TRUE)>>}
rwnx_send_mask_set_ext_flags_req ==
    {<<Cfm("MM_SET_VENDOR_SWCONFIG", "MM_SET_VENDOR_SWCONFIG", TRUE)>>}
rwnx_send_get_fw_version_req == {<<Cfm("MM_GET_FW_VERSION", "MM_GET_FW_VERSION", TRUE)>>}
rwnx_send_txpwr_lvl_req ==
    {<<>>, <<Cfm("MM_SET_TXPWR_IDX_LVL", "MM_SET_TXPWR_IDX_LVL", FALSE)>>}
rwnx_send_txpwr_lvl_v3_req ==
    {<<>>, <<Cfm("MM_SET_TXPWR_IDX_LVL", "MM_SET_TXPWR_IDX_LVL", FALSE)>>}
rwnx_send_txpwr_lvl_v4_req ==
    {<<>>, <<Cfm("MM_SET_TXPWR_IDX_LVL", "MM_SET_TXPWR_IDX_LVL", FALSE)>>}
rwnx_send_txpwr_lvl_adj_req ==
    {<<>>, <<Cfm("MM_SET_TXPWR_LVL_ADJ", "MM_SET_TXPWR_LVL_ADJ", FALSE)>>}
rwnx_send_txpwr_idx_req ==
    {<<>>, <<Cfm("MM_SET_TXPWR_IDX_LVL", "MM_SET_TXPWR_IDX_LVL", FALSE)>>}
rwnx_send_txpwr_ofst_req == {<<>>, <<Cfm("MM_SET_TXPWR_OFST", "MM_SET_TXPWR_OFST", FALSE)>>}
rwnx_send_txpwr_ofst2x_req == {<<>>, <<Cfm("MM_SET_TXPWR_OFST", "MM_SET_TXPWR_OFST", FALSE)>>}
rwnx_send_txpwr_ofst2x_v2_req ==
    {<<>>, <<Cfm("MM_SET_TXPWR_OFST", "MM_SET_TXPWR_OFST", FALSE)>>}
rwnx_send_set_filter == {<<Cfm("MM_SET_FILTER", "MM_SET_FILTER", FALSE)>>}
rwnx_send_me_config_req == {<<Cfm("ME_CONFIG", "ME_CONFIG", FALSE)>>}
rwnx_send_me_chan_config_req == {<<Cfm("ME_CHAN_CONFIG", "ME_CHAN_CONFIG", FALSE)>>}
rwnx_send_me_set_control_port_req ==
    {<<Cfm("ME_SET_CONTROL_PORT", "ME_SET_CONTROL_PORT", FALSE)>>}
rwnx_send_me_sta_add == {<<Cfm("ME_STA_ADD", "ME_STA_ADD", TRUE)>>}
rwnx_send_me_sta_del == {<<Cfm("ME_STA_DEL", "ME_STA_DEL", FALSE)>>}
rwnx_send_me_traffic_ind == {<<Cfm("ME_TRAFFIC_IND", "ME_TRAFFIC_IND", FALSE)>>}
rwnx_send_me_rc_stats == {<<Cfm("ME_RC_STATS", "ME_RC_STATS", TRUE)>>}
rwnx_send_me_rc_set_rate == {<<Ntf("ME_RC_SET_RATE")>>}
rwnx_send_me_set_ps_mode == {<<Cfm("ME_SET_PS_MODE", "ME_SET_PS_MODE", FALSE)>>}
rwnx_send_me_set_lp_level == {<<Cfm("ME_SET_LP_LEVEL", "ME_SET_LP_LEVEL", FALSE)>>}
rwnx_send_sm_connect_req == {<<>>, <<Cfm("SM_CONNECT", "SM_CONNECT", TRUE)>>}
rwnx_send_sm_disconnect_req == {<<Cfm("SM_DISCONNECT", "SM_DISCONNECT", FALSE)>>}
rwnx_send_sm_external_auth_required_rsp ==
    {<<Cfm("SM_EXTERNAL_AUTH_REQUIRED_RSP", "SM_EXTERNAL_AUTH_REQUIRED_RSP", FALSE)>>}
rwnx_send_apm_start_req == {<<Cfm("APM_START", "APM_START", TRUE)>>}
rwnx_send_apm_stop_req == {<<Cfm("APM_STOP", "APM_STOP", FALSE)>>}
rwnx_send_scanu_req ==
    {first \o second \o <<Cfm("SCANU_START", "SCANU_START_ADDTIONAL", FALSE)>> :
        first \in {<<>>} \cup rwnx_send_add_if,
        second \in {<<>>, <<Cfm("SCANU_VENDOR_IE", "SCANU_VENDOR_IE", FALSE)>>}}
rwnx_send_scanu_cancel_req == {<<Cfm("SCANU_CANCEL", "SCANU_CANCEL", TRUE)>>}
rwnx_send_apm_start_cac_req == {<<Cfm("APM_START_CAC", "APM_START_CAC", TRUE)>>}
rwnx_send_apm_stop_cac_req == {<<Cfm("APM_STOP_CAC", "APM_STOP_CAC", FALSE)>>}
rwnx_send_mesh_start_req == {<<Cfm("MESH_START", "MESH_START", TRUE)>>}
rwnx_send_mesh_stop_req == {<<Cfm("MESH_STOP", "MESH_STOP", TRUE)>>}
rwnx_send_mesh_update_req == {<<Cfm("MESH_UPDATE", "MESH_UPDATE", TRUE)>>}
rwnx_send_mesh_peer_info_req == {<<Cfm("MESH_PEER_INFO", "MESH_PEER_INFO", TRUE)>>}
rwnx_send_mesh_path_update_req == {<<Cfm("MESH_PATH_UPDATE", "MESH_PATH_UPDATE", TRUE)>>}
rwnx_send_tdls_peer_traffic_ind_req == {<<>>, <<Ntf("TDLS_PEER_TRAFFIC_IND")>>}
rwnx_send_config_monitor_req == {<<Cfm("ME_CONFIG_MONITOR", "ME_CONFIG_MONITOR", TRUE)>>}
rwnx_send_tdls_chan_switch_req == {<<Cfm("TDLS_CHAN_SWITCH", "TDLS_CHAN_SWITCH", TRUE)>>}
rwnx_send_tdls_cancel_chan_switch_req ==
    {<<Cfm("TDLS_CANCEL_CHAN_SWITCH", "TDLS_CANCEL_CHAN_SWITCH", TRUE)>>}
rwnx_send_dbg_trigger_req == {<<Ntf("MM_DBG_TRIGGER")>>}
rwnx_send_dbg_mem_read_req == {<<Cfm("DBG_MEM_READ", "DBG_MEM_READ", TRUE)>>}
rwnx_send_dbg_mem_write_req == {<<Cfm("DBG_MEM_WRITE", "DBG_MEM_WRITE", FALSE)>>}
rwnx_send_dbg_mem_mask_write_req == {<<Cfm("DBG_MEM_MASK_WRITE", "DBG_MEM_MASK_WRITE", FALSE)>>}
rwnx_send_rftest_req == {<<Cfm("DBG_RFTEST_CMD", "DBG_RFTEST_CMD", TRUE)>>}
rwnx_send_dbg_set_mod_filter_req == {<<Cfm("DBG_SET_MOD_FILTER", "DBG_SET_MOD_FILTER", FALSE)>>}
rwnx_send_dbg_set_sev_filter_req == {<<Cfm("DBG_SET_SEV_FILTER", "DBG_SET_SEV_FILTER", FALSE)>>}
rwnx_send_dbg_get_sys_stat_req == {<<Cfm("DBG_GET_SYS_STAT", "DBG_GET_SYS_STAT", TRUE)>>}
rwnx_send_dbg_mem_block_write_req ==
    {<<Cfm("DBG_MEM_BLOCK_WRITE", "DBG_MEM_BLOCK_WRITE", FALSE)>>}
rwnx_send_dbg_mem_block_read_req == {<<Cfm("DBG_MEM_BLOCK_READ", "DBG_MEM_BLOCK_READ", TRUE)>>}
rwnx_send_dbg_start_app_req == {<<Cfm("DBG_START_APP", "DBG_START_APP", FALSE)>>}
rwnx_send_cfg_rssi_req == {<<Cfm("MM_CFG_RSSI", "MM_CFG_RSSI", FALSE)>>}
rwnx_send_mesh_peer_update_ntf == {<<Ntf("MESH_PEER_UPDATE_NTF")>>}
rwnx_send_mesh_path_create_req == {<<>>, <<Ntf("MESH_PATH_CREATE")>>}
rwnx_send_mesh_proxy_add_req == {<<Ntf("MESH_PROXY_ADD")>>}

(* Every call the driver can make. *)
AllCalls ==
    UNION {rwnx_send_reset, rwnx_send_start, rwnx_send_version_req, rwnx_send_add_if,
           rwnx_send_remove_if, rwnx_send_set_channel, rwnx_send_key_add,
           rwnx_send_key_del, rwnx_send_bcn, rwnx_send_bcn_change, rwnx_send_roc,
           rwnx_send_cancel_roc, rwnx_send_set_power, rwnx_send_set_edca,
           rwnx_send_arpoffload_en_req, rwnx_send_disable_agg_req, rwnx_send_coex_req,
           rwnx_send_rf_config_req, rwnx_send_rf_calib_req, rwnx_send_get_macaddr_req,
           rwnx_send_get_sta_info_req, rwnx_send_set_stack_start_req,
           rwnx_send_get_temp_req, rwnx_send_vendor_hwconfig_req,
           rwnx_send_vendor_swconfig_req, rwnx_send_vendor_hwconfig_req_x2,
           rwnx_send_vendor_swconfig_req_x2, rwnx_send_mask_set_ext_flags_req,
           rwnx_send_get_fw_version_req, rwnx_send_txpwr_lvl_req,
           rwnx_send_txpwr_lvl_v3_req, rwnx_send_txpwr_lvl_v4_req,
           rwnx_send_txpwr_lvl_adj_req, rwnx_send_txpwr_idx_req, rwnx_send_txpwr_ofst_req,
           rwnx_send_txpwr_ofst2x_req, rwnx_send_txpwr_ofst2x_v2_req,
           rwnx_send_set_filter, rwnx_send_me_config_req, rwnx_send_me_chan_config_req,
           rwnx_send_me_set_control_port_req, rwnx_send_me_sta_add, rwnx_send_me_sta_del,
           rwnx_send_me_traffic_ind, rwnx_send_me_rc_stats, rwnx_send_me_rc_set_rate,
           rwnx_send_me_set_ps_mode, rwnx_send_me_set_lp_level, rwnx_send_sm_connect_req,
           rwnx_send_sm_disconnect_req, rwnx_send_sm_external_auth_required_rsp,
           rwnx_send_apm_start_req, rwnx_send_apm_stop_req, rwnx_send_scanu_req,
           rwnx_send_scanu_cancel_req, rwnx_send_apm_start_cac_req,
           rwnx_send_apm_stop_cac_req, rwnx_send_mesh_start_req, rwnx_send_mesh_stop_req,
           rwnx_send_mesh_update_req, rwnx_send_mesh_peer_info_req,
           rwnx_send_mesh_path_update_req, rwnx_send_tdls_peer_traffic_ind_req,
           rwnx_send_config_monitor_req, rwnx_send_tdls_chan_switch_req,
           rwnx_send_tdls_cancel_chan_switch_req, rwnx_send_dbg_trigger_req,
           rwnx_send_dbg_mem_read_req, rwnx_send_dbg_mem_write_req,
           rwnx_send_dbg_mem_mask_write_req, rwnx_send_rftest_req,
           rwnx_send_dbg_set_mod_filter_req, rwnx_send_dbg_set_sev_filter_req,
           rwnx_send_dbg_get_sys_stat_req, rwnx_send_dbg_mem_block_write_req,
           rwnx_send_dbg_mem_block_read_req, rwnx_send_dbg_start_app_req,
           rwnx_send_cfg_rssi_req, rwnx_send_mesh_peer_update_ntf,
           rwnx_send_mesh_path_create_req, rwnx_send_mesh_proxy_add_req}
=============================================================================
