------------------------------ MODULE CgiForms ------------------------------
(***************************************************************************)
(* The pages of the configuration program (cgi/): what each one reads from *)
(* its file under /etc/rw, the form it shows, and the file it writes when  *)
(* the form comes back.                                                    *)
(*                                                                         *)
(* A file is a sequence of tokens: a keyword with the white space or "="   *)
(* that separates it from its value, the letters of a value, or NL.        *)
(* Comment lines are left out, and white space around a value counts with  *)
(* the keyword.  Of HTML only the fields of the forms are kept.            *)
(***************************************************************************)
EXTENDS Integers, Sequences, FiniteSets, SequencesExt

CONSTANT TextLimit  \* what a menu with a text area reads at most (2048 bytes)

ASSUME TextLimitAssumption == TextLimit \in Nat \ {0}

-----------------------------------------------------------------------------
(* Reading and writing files of keywords (utils.c, setup.h) *)

NL   == "\n"     \* the end of a line
None == "unset"  \* a variable of the environment that is not set

LineStarts(t) == {i \in DOMAIN t : i = 1 \/ t[i - 1] = NL}

LineEnd(t, i) ==
  CHOOSE end \in i .. Len(t) + 1 : /\ end = Len(t) + 1 \/ t[end] = NL
                                  /\ \A j \in i .. end - 1 : t[j] # NL

(* readline answers a negative number for a line without an end *)
WholeLines(t) == {i \in LineStarts(t) : \E j \in i .. Len(t) : t[j] = NL}

(* The value of the last line that starts with k *)
ValueAt(t, lines, k, default) ==
  LET at == {i \in lines : t[i] = k}
  IN  IF at = {} THEN default
      ELSE SubSeq(t, Max(at) + 1, LineEnd(t, Max(at)) - 1)

(* argvindex stops at the NULL that ends the keywords, and read_cfg_value *)
(* then takes the length of that NULL.                                    *)
Readable(t, keys) == \A i \in WholeLines(t) : t[i] = NL \/ t[i] \in keys

ReadCfg(t, defaults) ==
  LET lines == WholeLines(t)
  IN  [k \in DOMAIN defaults |-> ValueAt(t, lines, k, defaults[k])]

(* A field that the form did not send is written as an empty value *)
OutConfig(k, form) ==
  <<k>> \o (IF k \in DOMAIN form THEN form[k] ELSE <<>>) \o <<NL>>

OutConfigs(keys, form) ==
  FlattenSeq([i \in DOMAIN keys |-> OutConfig(keys[i], form)])

(* What a write at offset 0 leaves of a file *)
Overwrite(old, new) == new \o SubSeq(old, Len(new) + 1, Len(old))

(* A <select>: a browser takes the first option when none is marked *)
OptionList(names) == [i \in DOMAIN names |-> <<names[i]>>]

Sel(value, options) == IF value \in ToSet(options) THEN value ELSE options[1]

Selected(values, choices) ==
  [k \in DOMAIN values |-> IF k \in DOMAIN choices THEN Sel(values[k], choices[k])
                                                   ELSE values[k]]

EnabledDisabled == OptionList(<<"enabled", "disabled">>)

(* The default of a file chooser: what was asked for, else the first file *)
(* that readdir returns, else a new one.                                  *)
FileChooser(dir, value) ==
  CASE value # None              -> {value}
    [] value = None /\ dir # {}  -> dir
    [] OTHER                     -> {"__new"}

-----------------------------------------------------------------------------
(* A page names what it does in *_funcs.  Its option is a button of the main *)
(* menu, named for the page that it opens.                                   *)

(* network.c *)

NetworkDoes == {"option", "menu", "write"}
NetworkOption == "network"

NetworkDefaults ==
  [k \in {"p_dhcp", "p_address", "p_netmask", "p_broadcast", "s_dhcp", "s_address",
          "s_netmask", "s_broadcast", "tftphost", "logsvr", "timesvr", "router",
          "swapsvr", "swapport", "masq_net", "iw_watchdog_if", "iw_watchdog_time"} |->
     CASE k = "iw_watchdog_if"   -> <<"wlan0">>
       [] k = "iw_watchdog_time" -> <<"30">>
       [] OTHER                  -> <<>>]

NetworkChoices == [k \in {"p_dhcp", "s_dhcp"} |-> EnabledDisabled]

NetworkMenu(v) == Selected(v, NetworkChoices)

NetworkKeys == <<"p_dhcp", "p_address", "p_netmask", "p_broadcast",
                 "s_dhcp", "s_address", "s_netmask", "s_broadcast",
                 "router", "tftphost", "logsvr", "timesvr",
                 "iw_watchdog_if", "iw_watchdog_time",
                 "swapsvr", "swapport", "masq_net">>

NetworkWrite(form) == OutConfigs(NetworkKeys, form)

-----------------------------------------------------------------------------
(* udhcpd.c *)

UdhcpdDoes == {"option", "menu", "write"}
UdhcpdOption == "udhcpd"

UdhcpdKeys == <<"enable", "interface", "start", "end", "lease_file", "dns",
                "subnet", "router", "domain", "lease">>

UdhcpdDefaults ==
  [k \in ToSet(UdhcpdKeys) |-> IF k = "interface" THEN <<"eth0">> ELSE <<>>]

UdhcpdChoices == [enable    |-> OptionList(<<"yes", "no">>),
                  interface |-> OptionList(<<"eth0", "eth1", "wlan0">>)]

UdhcpdMenu(v) ==
  [Selected(v, UdhcpdChoices) EXCEPT !["lease_file"] = <<"/var/run/udhcpd.leases">>]

UdhcpdWrite(form) == OutConfigs(UdhcpdKeys, form)

-----------------------------------------------------------------------------
(* wlan.c *)

WlanDoes == {"option", "menu", "write"}
WlanOption == "wlan"

WlanKeys == <<"essid", "security", "channel", "antsel_rx", "antsel_tx", "rate",
              "txpower", "wep", "nwds">>

WlanDefaults ==
  [k \in ToSet(WlanKeys) |-> IF k = "txpower" THEN <<"auto">> ELSE <<>>]

WlanChoices ==
  [security  |-> OptionList(<<"0", "1", "2", "3">>),
   channel   |-> OptionList(<<"1", "2", "3", "4", "5", "6", "7", "8", "9", "10",
                           "11", "12", "13">>),
   antsel_rx |-> OptionList(<<"0", "1", "2", "3">>),
   antsel_tx |-> OptionList(<<"0", "1", "2", "3">>),
   rate      |-> OptionList(<<"auto", "11Mb", "5Mb", "2Mb", "1Mb">>)]

WlanMenu(v) == Selected(v, WlanChoices)

WlanWrite(form) == OutConfigs(WlanKeys, form)

-----------------------------------------------------------------------------
(* kaodv.c *)

KaodvDoes == {"option", "menu", "write", "refresh"}
KaodvOption == "kaodv"

KaodvKeys == <<"kaodv", "kaodv_gw", "kaodv_lo", "kaodv_if", "kaodv_bl",
               "kaodv_gw_gif", "kaodv_gw_aif", "kaodv_gw_subnet">>

KaodvDefaults ==
  [k \in ToSet(KaodvKeys) |->
     CASE k \in {"kaodv", "kaodv_gw", "kaodv_lo"}               -> <<"disabled">>
       [] k = "kaodv_if"                                        -> <<"wlan0">>
       [] k \in {"kaodv_bl", "kaodv_gw_gif", "kaodv_gw_aif"}    -> <<"eth0">>
       [] k = "kaodv_gw_subnet"                                 -> <<"10.0.1.0">>]

KaodvChoices == [k \in {"kaodv", "kaodv_gw", "kaodv_lo"} |-> EnabledDisabled]

Indexed(first, last) == {KaodvKeys[i] : i \in first .. last}

(* The fields of the mode that is not shown are sent along, hidden *)
KaodvHiddenShort(gw) == IF gw = <<"disabled">> THEN Indexed(6, 7) ELSE Indexed(4, 5)
KaodvHidden(gw)  == IF gw = <<"disabled">> THEN Indexed(6, 8) ELSE Indexed(4, 5)
KaodvVisible(gw) == IF gw = <<"disabled">> THEN {"kaodv_if", "kaodv_bl"}
                    ELSE {"kaodv_gw_gif", "kaodv_gw_aif", "kaodv_gw_subnet"}

KaodvMenu(v, gwSel) ==
  LET gw == IF gwSel = None THEN v["kaodv_gw"] ELSE gwSel
      w  == Selected([v EXCEPT !["kaodv_gw"] = gw], KaodvChoices)
  IN  [k \in DOMAIN KaodvChoices \cup KaodvHidden(gw) \cup KaodvVisible(gw) |-> w[k]]

KaodvWrite(form) == OutConfigs(KaodvKeys, form)

-----------------------------------------------------------------------------
(* cipe.c *)

CipeDoes == {"option", "menu", "write", "refresh"}
CipeOption == "cipe"

(* read_peer: fgets takes a last line without an end, and lines that start *)
(* with no keyword are skipped.  The host line is left out: no file has it. *)
CipeRead(t) ==
  LET at(k)  == ValueAt(t, LineStarts(t), k, <<>>)
      peer   == at("peer")
      x      == SelectInSeq(peer, LAMBDA c : c = ":")
  IN  [ipaddr  |-> at("ipaddr"),
       ptpaddr |-> at("ptpaddr"),
       peer    |-> IF x = 0 THEN peer ELSE SubSeq(peer, 1, x - 1),
       port    |-> IF x = 0 THEN <<>> ELSE SubSeq(peer, x + 1, Len(peer)),
       ping    |-> at("ping"),
       cttl    |-> ValueAt(t, LineStarts(t), "cttl", <<"64">>),
       key     |-> at("key")]

CipeDefaults == CipeRead(<<>>)

CipeChoices == [cttl |-> OptionList(<<"32", "64", "96", "128">>)]

CipeMenu(v) == Selected(v, CipeChoices)

(* The keep alive timer of the form is not used *)
CipeKeys == <<"ipaddr", "ptpaddr", "peer", "cttl", "dynip", "ping", "maxerr", "mtu",
              "key">>

CipeWrite(form) ==
  OutConfigs(CipeKeys,
    [ipaddr |-> form.ipaddr, ptpaddr |-> form.ptpaddr, cttl |-> form.cttl,
     peer |-> form.peer \o <<":">> \o form.port, key |-> form.key,
     dynip |-> <<"1">>, ping |-> <<"60">>, maxerr |-> <<"2">>, mtu |-> <<"1500">>])

-----------------------------------------------------------------------------
(* Pages whose form is the text of a file: telnetd.c, httpd.c, openvpn.c *)

Text(t) == [text |-> SubSeq(t, 1, Min({Len(t), TextLimit}))]

TelnetdDoes              == {"option", "menu", "write"}
TelnetdOption            == "telnetd"
TelnetdMenu(t)           == Text(t)
TelnetdWrite(old, form)  == Overwrite(old, form.text)

HttpdDoes                == {"option", "menu", "write"}
HttpdOption              == "httpd"
HttpdMenu(t)             == Text(t)
HttpdWrite(old, form)    == Overwrite(old, form.text)

OpenvpnDoes              == {"option", "menu", "write", "refresh"}
OpenvpnOption            == "openvpn"
OpenvpnMenu(t)           == Text(t)
OpenvpnWrite(old, form)  == Overwrite(old, form.text)

-----------------------------------------------------------------------------
(* status.c *)

StatusDoes == {"option", "menu"}
StatusOption == "status"

(* The parts of /proc/uptime that are shown *)
Uptime(uptime) ==
  LET upx == uptime % 86400
      mod == uptime % 3600
  IN  [days    |-> uptime \div 86400, hours   |-> upx \div 3600,
       minutes |-> mod \div 60,       seconds |-> mod % 60]
=============================================================================
