------------------------------ MODULE MCWifi -------------------------------
(***************************************************************************)
(* Bounded instances of WifiService, with what the header says of a state  *)
(* and the service does not keep.                                          *)
(***************************************************************************)
EXTENDS WifiService

(***************************************************************************)
(* wifi.h:63, "WIFI_BAIATOOL_STATE_CONNECTING, Wi-Fi is connecting": a     *)
(* service at rest that reports it has an answer to wait for.              *)
(***************************************************************************)
ConnectingIsTrue ==
    (Resting /\ reported = "CONNECTING") => link = "trying" \/ exchange = "running"

(***************************************************************************)
(* esp32_wps.h:52-54, of esp32_wps_stop: "Must be called before issuing a  *)
(* net_mgmt connect request if WPS was previously started, because the     *)
(* Zephyr ESP32 driver rejects esp_wifi_start() when WiFi is already       *)
(* running via the HAL": a connect is requested with the HAL off.          *)
(***************************************************************************)
HalOffAtRequest == at["cmd"] = "request" => ~hal
=============================================================================
