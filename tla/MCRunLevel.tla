----------------------------- MODULE MCRunLevel -----------------------------
(* The primary or the secondary interface by DHCP, each with a static       *)
(* address to fall back on; the log server in netcfg or only in the lease;  *)
(* with and without telnet, a DHCP server and a card to watch.              *)
EXTENDS RunLevel

SomeConfigs ==
  {{"p_dhcp", "p_address", "s_address", "hosts", "wlan0"},
   {"p_address", "s_dhcp", "s_address", "logsvr", "tftphost", "udhcpd"}}
SomeOffers == {{"serverid"}, {"serverid", "logsvr"}}
=============================================================================
