----------------------------- MODULE MCCgiSetup -----------------------------
(* Values for model checking: the files of RW.example, with the udhcpd.conf *)
(* of RW.nbi.                                                                *)
EXTENDS CgiSetup

Values(names) == [i \in DOMAIN names |-> <<names[i]>>]

ExampleNetcfg ==
  OutConfigs(<<"p_dhcp", "p_address", "p_netmask", "p_broadcast", "s_dhcp", "s_address",
               "s_netmask", "s_broadcast", "router", "tftphost", "logsvr", "timesvr",
               "swapsvr", "swapport", "masq_net">>,
    [p_dhcp |-> <<"enabled">>, p_address |-> <<"10.0.0.1">>,
     p_netmask |-> <<"255.255.255.0">>, p_broadcast |-> <<"10.0.0.255">>,
     s_dhcp |-> <<"disabled">>, s_address |-> <<"10.0.1.1">>,
     s_netmask |-> <<"255.255.255.0">>, s_broadcast |-> <<"10.0.1.255">>,
     swapport |-> <<"4401">>])

(* Two of its options are spelt in udhcpd's other way, which the page of *)
(* the CGI does not know.                                                 *)
NbiUdhcpd ==
  OutConfigs(<<"start", "end", "interface", "lease_file", "opt dns", "subnet",
               "opt router", "domain", "lease">>,
    [start |-> <<"10.0.1.2">>, end |-> <<"10.0.1.26">>, interface |-> <<"eth0">>,
     lease_file |-> <<"/etc/rw/udhcpd.leases">>, subnet |-> <<"255.255.255.224">>,
     domain |-> <<"example1.com">>, lease |-> <<"86400">>])

ExampleWlan ==
  OutConfigs(<<"essid", "channel", "antsel_rx", "antsel_tx", "rate", "txpower">>,
    [essid |-> <<"linuxAP-eh">>, channel |-> <<"11">>, antsel_rx |-> <<"0">>,
     antsel_tx |-> <<"0">>, rate |-> <<"auto">>, txpower |-> <<"auto">>])

Example ==
  [path \in {<<"runlevel">>, <<"netcfg">>, <<"udhcpd.conf">>, <<"wlan", "wlan0">>,
             <<"telnetd.hosts">>, <<"httpd.conf">>} |->
     CASE path = <<"runlevel">>      -> <<"3", NL>>
       [] path = <<"netcfg">>        -> ExampleNetcfg
       [] path = <<"udhcpd.conf">>   -> NbiUdhcpd
       [] path = <<"wlan", "wlan0">> -> ExampleWlan
       [] path = <<"telnetd.hosts">> -> <<"10.", "192.168.", "172.", "127.">>
       [] path = <<"httpd.conf">>    -> <<>>]

AllPages   == KeywordPages \cup TextPages \cup {"status"}
BrowserPages == "b1" :> AllPages @@ "b2" :> {"kaodv"}
WordSet    == {<<"a", ":", "c">>}
TextSet    == {<<"a">>}
PageFields == {"runlevel", "text", "masq_net", "essid", "kaodv_bl",
               "kaodv_gw_subnet", "peer", "port"}
=============================================================================
