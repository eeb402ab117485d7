------------------------------ MODULE CgiSetup ------------------------------
(***************************************************************************)
(* The configuration program (cgi/setup.c and the pages it is linked with) *)
(* as processes that the web server starts, one per request, over the      *)
(* files of /etc/rw.  Several browsers use it at once.                     *)
(***************************************************************************)
EXTENDS CgiForms

CONSTANTS
  Browsers,
  Pages,        \* the pages that each browser follows from the main menu
  Names,        \* names typed for an interface, a peer or a tunnel
  Words,        \* values typed into a text field
  Texts,        \* texts typed into a text area
  Editable,     \* the fields that are changed
  Shipped,      \* the files of /etc/rw at first
  MaxForms, MaxEdits, MaxFaults    \* bounds on forms, changes of a form, failures

KeywordPages == {"network", "udhcpd", "wlan", "kaodv", "cipe"}
TextPages    == {"telnetd", "httpd", "openvpn"}
NamedPages   == {"wlan", "cipe", "openvpn"}

ASSUME PagesAssumption ==
  Pages \in [Browsers -> SUBSET (KeywordPages \cup TextPages \cup {"status"})]

ASSUME BoundsAssumption == MaxForms \in Nat /\ MaxFaults \in Nat

(* "__new" is the choice of a new file, and no file has that name *)
ASSUME NamesAssumption == Names \subseteq STRING /\ "__new" \notin Names

(* A text field sends no line end; a text area may *)
ASSUME WordsAssumption == \A w \in Words : w \in Seq(STRING) /\ NL \notin ToSet(w)
ASSUME TextsAssumption == \A t \in Texts : t \in Seq(STRING)

VARIABLES
  files,      \* /etc/rw: from paths to tokens
  archive,    \* what SAVE has stored in flash
  up,         \* whether the last boot found a run level and started the services
  screen,     \* what each browser shows
  proc,       \* the process that serves each browser's request
  forms,      \* how many forms were sent
  faults,     \* how many failures there were
  raced,      \* history: files that were written while another process used them
  overtaken,  \* history: files saved from an older form, or with an ambiguous peer
  config      \* history: what the users have entered, value by value

browserVars == <<screen, forms>>
history     == <<raced, overtaken, config>>
vars        == <<files, archive, up, screen, proc, forms, faults, history>>

-----------------------------------------------------------------------------
(* Files *)

Path(page, name) == CASE page = "top"       -> <<"runlevel">>
                      [] page = "network"   -> <<"netcfg">>
                      [] page = "udhcpd"    -> <<"udhcpd.conf">>
                      [] page = "telnetd"   -> <<"telnetd.hosts">>
                      [] page = "httpd"     -> <<"httpd.conf">>
                      [] page \in NamedPages -> <<page, name>>
                      [] OTHER              -> <<page>>

Dir(page)  == {n \in Names \cup {"New", "__new"} : <<page, n>> \in DOMAIN files}
Read(path) == IF path \in DOMAIN files THEN files[path] ELSE <<>>
Put(path, t) == files' = [p \in DOMAIN files \cup {path} |-> IF p = path THEN t ELSE files[p]]

PageDoes(page) == CASE page = "network" -> NetworkDoes
                    [] page = "udhcpd"  -> UdhcpdDoes
                    [] page = "wlan"    -> WlanDoes
                    [] page = "kaodv"   -> KaodvDoes
                    [] page = "cipe"    -> CipeDoes
                    [] page = "telnetd" -> TelnetdDoes
                    [] page = "httpd"   -> HttpdDoes
                    [] page = "openvpn" -> OpenvpnDoes
                    [] page = "status"  -> StatusDoes
                    [] page = "top"     -> {"write"}

Options == {NetworkOption, UdhcpdOption, WlanOption, KaodvOption, CipeOption,
            TelnetdOption, HttpdOption, OpenvpnOption, StatusOption}

PageDefaults(page) == CASE page = "network" -> NetworkDefaults
                        [] page = "udhcpd"  -> UdhcpdDefaults
                        [] page = "wlan"    -> WlanDefaults
                        [] page = "kaodv"   -> KaodvDefaults
                        [] page = "cipe"    -> CipeDefaults

PageChoices(page) == CASE page = "network" -> NetworkChoices
                       [] page = "udhcpd"  -> UdhcpdChoices
                       [] page = "wlan"    -> WlanChoices
                       [] page = "kaodv"   -> KaodvChoices
                       [] page = "cipe"    -> CipeChoices

PageValues(page, t) == IF page = "cipe" THEN CipeRead(t)
                       ELSE ReadCfg(t, PageDefaults(page))

PageMenu(page, t, gwSel) == CASE page = "network" -> NetworkMenu(PageValues(page, t))
                              [] page = "udhcpd"  -> UdhcpdMenu(PageValues(page, t))
                              [] page = "wlan"    -> WlanMenu(PageValues(page, t))
                              [] page = "kaodv"   -> KaodvMenu(PageValues(page, t), gwSel)
                              [] page = "cipe"    -> CipeMenu(PageValues(page, t))
                              [] page = "telnetd" -> TelnetdMenu(t)
                              [] page = "httpd"   -> HttpdMenu(t)
                              [] page = "openvpn" -> OpenvpnMenu(t)

PageContent(page, form) == CASE page = "network" -> NetworkWrite(form)
                             [] page = "udhcpd"  -> UdhcpdWrite(form)
                             [] page = "wlan"    -> WlanWrite(form)
                             [] page = "kaodv"   -> KaodvWrite(form)
                             [] page = "cipe"    -> CipeWrite(form)
                             [] page = "top"     -> form.runlevel \o <<NL>>

TextContent(page, old, form) == CASE page = "telnetd" -> TelnetdWrite(old, form)
                                  [] page = "httpd"   -> HttpdWrite(old, form)
                                  [] page = "openvpn" -> OpenvpnWrite(old, form)

PageOf(path) == CASE path = <<"runlevel">>      -> "top"
                  [] path = <<"netcfg">>        -> "network"
                  [] path = <<"udhcpd.conf">>   -> "udhcpd"
                  [] path = <<"telnetd.hosts">> -> "telnetd"
                  [] path = <<"httpd.conf">>    -> "httpd"
                  [] OTHER                      -> path[1]

FileValues(path, t) == CASE PageOf(path) = "top"       -> [runlevel |-> SubSeq(t, 1, LineEnd(t, 1) - 1)]
                         [] PageOf(path) \in TextPages -> [text |-> t]
                         [] OTHER                      -> PageValues(PageOf(path), t)

(* read_cfg's readers crash on a line they do not know; read_peer skips it *)
Crashes(page, t) == page \in KeywordPages \ {"cipe"}
                      /\ ~ Readable(t, DOMAIN PageDefaults(page))

HasRunlevel(fs) == /\ <<"runlevel">> \in DOMAIN fs
                   /\ \E i \in DOMAIN fs[<<"runlevel">>] : fs[<<"runlevel">>][i] # NL

(* Files that no page has written: in a configuration set of the repository, *)
(* or made with an editor, a line may have a keyword that its page does not  *)
(* know.  One of them holds the run level.                                   *)
ASSUME ShippedAssumption ==
  /\ Shipped \in [DOMAIN Shipped -> Seq(STRING)]
  /\ HasRunlevel(Shipped)
  /\ \A path \in DOMAIN Shipped :
       PageOf(path) \in NamedPages => Len(path) = 2 /\ path[2] \notin {"", "__new"}

Foreign == {path \in DOMAIN Shipped : Crashes(PageOf(path), Shipped[path])}

-----------------------------------------------------------------------------
(* Browsers *)

Show(page, name, fields) ==
  [page |-> page, name |-> name, fields |-> fields, edited |-> {}, stale |-> FALSE]

Blank == Show("none", None, <<>>)
Error == Show("error", None, <<>>)

Idle == [pc |-> "idle", link |-> None, j_click |-> None, f_click |-> None]

Waiting(b) == up /\ proc[b] = Idle
File(b)    == Path(screen[b].page, screen[b].name)

Send(b, link, j_click, f_click) ==
  /\ proc' = [proc EXCEPT ![b] = [pc |-> "main", link |-> link,
                                  j_click |-> j_click, f_click |-> f_click]]
  /\ UNCHANGED <<files, archive, up, faults, history>>

Submit(b, j_click, f_click) ==
  /\ forms < MaxForms
  /\ forms' = forms + 1
  /\ Send(b, None, j_click, f_click)

(* The first visit, and every visit after an error page *)
Visit(b) ==
  /\ Waiting(b) /\ screen[b].page \in {"none", "error", "status"}
  /\ Send(b, None, None, None)
  /\ UNCHANGED <<screen, forms>>

(* A button of the main menu *)
Follow(b, page) ==
  /\ Waiting(b) /\ screen[b].page = "top" /\ page \in Options
  /\ Send(b, page, None, None)
  /\ UNCHANGED <<screen, forms>>

Press(b, click) ==
  /\ Waiting(b)
  /\ click = "OK"     => screen[b].page \in KeywordPages \cup TextPages \cup {"top"}
  /\ click = "CANCEL" => screen[b].page \in KeywordPages \cup TextPages
  /\ click = "SAVE"   => screen[b].page = "top"
  /\ Submit(b, "IGNORE", click)
  /\ UNCHANGED screen

(* The script behind a chooser and behind the mode of kaodv *)
Choose(b, name) ==
  /\ Waiting(b) /\ screen[b].page \in NamedPages /\ "name" \notin screen[b].edited
  /\ name \in (Dir(screen[b].page) \cup {"__new"}) \ {screen[b].name}
  /\ Submit(b, "REFRESH", None)
  /\ screen' = [screen EXCEPT ![b].name = name]

ChooseMode(b, gw) ==
  /\ Waiting(b) /\ screen[b].page = "kaodv" /\ screen[b].fields["kaodv_gw"] # gw
  /\ Submit(b, "REFRESH", None)
  /\ screen' = [screen EXCEPT ![b].fields["kaodv_gw"] = gw]

Visible(b, k) == /\ k \in DOMAIN screen[b].fields
                 /\ k \notin {"lease_file", "kaodv_gw"}
                 /\ screen[b].page = "kaodv" =>
                      k \notin KaodvHidden(screen[b].fields["kaodv_gw"])

Enterable(page, k) ==
  CASE page = "top"       -> ToSet(OptionList(<<"2", "3", "4">>))
    [] page \in TextPages -> Texts
    [] OTHER -> IF k \in DOMAIN PageChoices(page) THEN ToSet(PageChoices(page)[k]) ELSE Words

Enter(b, k, v) ==
  /\ Waiting(b) /\ Visible(b, k)
  /\ v \in Enterable(screen[b].page, k) \ {screen[b].fields[k]}
  /\ Cardinality((screen[b].edited \cup {k}) \ {"name", "kaodv_gw"}) <= MaxEdits
  /\ screen' = [screen EXCEPT ![b].fields[k] = v, ![b].edited = @ \cup {k}]
  /\ UNCHANGED <<files, archive, up, proc, forms, faults, history>>

(* The page of a new interface, peer or tunnel has a text field for its name *)
EnterName(b, name) ==
  /\ Waiting(b) /\ screen[b].name = "New" /\ screen[b].edited = {"name"}
  /\ screen' = [screen EXCEPT ![b].name = name]
  /\ UNCHANGED <<files, archive, up, proc, forms, faults, history>>

-----------------------------------------------------------------------------
(* main and dispatch *)

Click(r) == IF r.j_click \in {None, "IGNORE"} THEN r.f_click ELSE r.j_click

(* What a page does with a click, or what main goes on to when it has nothing *)
Dispatch(b, what, next) == IF what \in PageDoes(screen[b].page) THEN what ELSE next

Handler(b) == CASE Click(proc[b]) = None                -> "menu"
                [] Click(proc[b]) \in {"CANCEL", "RETURN"} -> "top"
                [] Click(proc[b]) = "REFRESH"           -> Dispatch(b, "refresh", "menu")
                [] Click(proc[b]) = "SAVE"              -> "save"
                [] Click(proc[b]) = "OK"                -> Dispatch(b, "write", "top")

(* What dispatch is called for: the link, or the page the form came from *)
Cfg(b) == IF Click(proc[b]) = None THEN proc[b].link ELSE screen[b].page

Called(b, what) == proc[b].pc = "main" /\ Handler(b) = what
At(b, pc)       == proc[b].pc = pc
Goto(b, pc)     == proc' = [proc EXCEPT ![b].pc = pc]
Exit(b, page)   == /\ screen' = [screen EXCEPT ![b] = page]
                   /\ proc'   = [proc EXCEPT ![b] = Idle]

BeingWritten(path, b) == \E c \in Browsers \ {b} : At(c, "flush") /\ File(c) = path
RacedIf(cond, path)   == raced' = IF cond THEN raced \cup {path} ELSE raced

(* fetch_runlevel: an empty or missing file leaves the path in the buffer, *)
(* which begins with no digit.                                            *)
FetchRunlevel == LET t == Read(<<"runlevel">>)
                 IN  IF t = <<>> \/ t[1] = NL THEN <<"0">> ELSE <<t[1]>>

TopMenuBare == Show("top", None, <<>>)
TopMenu == Show("top", None,
                [runlevel |-> Sel(FetchRunlevel, OptionList(<<"2", "3", "4">>))])

ShowTop(b) ==
  /\ \/ Called(b, "top")
     \/ Called(b, "menu") /\ Cfg(b) = None
     \/ At(b, "menu")
  /\ Exit(b, TopMenu)
  /\ RacedIf(BeingWritten(<<"runlevel">>, b), <<"runlevel">>)
  /\ UNCHANGED <<files, archive, up, forms, faults, overtaken, config>>

(* The name a chooser starts from: none, when the page is opened.  refresh *)
(* takes it from the form, for wlan the menu does.                         *)
NameSel(b) == IF Click(proc[b]) = None THEN None ELSE screen[b].name

Shown(b, page, name) ==
  LET new    == page \in NamedPages /\ name \in {"", "__new"}
      t      == Read(Path(page, name))
      gwSel  == IF Handler(b) = "refresh" /\ page = "kaodv"
                THEN screen[b].fields["kaodv_gw"] ELSE None
  IN  [Show(page, IF new THEN "New" ELSE name, PageMenu(page, t, gwSel)) EXCEPT
         !.edited = IF new THEN {"name"} ELSE IF gwSel # None THEN {"kaodv_gw"} ELSE {}]

(* The menu of a page, or the menu again for another file or mode: refresh   *)
(* where the page has one, else main goes on to its menu (wlan).             *)
ShowPage(b) ==
  /\ Called(b, "menu") \/ Called(b, "refresh")
  /\ Cfg(b) \in Pages[b] \ {"status"}
  /\ \E name \in IF Cfg(b) \in NamedPages THEN FileChooser(Dir(Cfg(b)), NameSel(b))
                                          ELSE {None} :
       LET path == Path(Cfg(b), name)
       IN  /\ RacedIf(BeingWritten(path, b), path)
           /\ Exit(b, IF Crashes(Cfg(b), Read(path)) THEN Blank ELSE Shown(b, Cfg(b), name))
  /\ UNCHANGED <<files, archive, up, forms, faults, overtaken, config>>

ShowStatus(b) ==
  /\ Called(b, "menu") /\ Cfg(b) = "status"
  /\ Exit(b, Show("status", None, <<>>))
  /\ UNCHANGED <<files, archive, up, forms, faults, history>>

-----------------------------------------------------------------------------
(* Writing *)

OthersStale(b) ==
  screen' = [c \in Browsers |->
               IF c # b /\ screen[c].page # "none" /\ File(c) = File(b)
               THEN [screen[c] EXCEPT !.stale = TRUE] ELSE screen[c]]

Entered(b) ==
  LET new == \/ File(b) \notin DOMAIN config
             \/ "name" \in screen[b].edited
      old == IF new THEN FileValues(File(b), <<>>) ELSE config[File(b)]
  IN  [k \in DOMAIN old |-> IF k \in screen[b].edited THEN screen[b].fields[k] ELSE old[k]]

Record(b) ==
  config' = [p \in DOMAIN config \cup {File(b)} |->
               IF p = File(b) THEN Entered(b) ELSE config[p]]

(* read_peer takes the first ":" for the one between the peer and its port *)
AmbiguousPeer(b) == screen[b].page = "cipe" /\ ":" \in ToSet(screen[b].fields["peer"])

Overtakes(b) ==
  overtaken' = IF screen[b].stale \/ AmbiguousPeer(b) THEN overtaken \cup {File(b)}
                                                     ELSE overtaken

(* A directory cannot be opened for writing *)
NoName(b) == screen[b].page \in NamedPages /\ screen[b].name = ""

(* What opening a file for writing leaves of it *)
NotTruncated(old) == old
Truncated(old)    == <<>>

(* fopen(..., "w") of the keyword files, open(..., O_TRUNC) of the run level: *)
(* the file is empty until the buffer is written.  A run level that was not   *)
(* sent is only noticed now.                                                 *)
OpenFile(b) ==
  /\ Called(b, "write") /\ Cfg(b) \in KeywordPages \cup {"top"} /\ ~ NoName(b)
  /\ Put(File(b), Truncated(Read(File(b))))
  /\ RacedIf(BeingWritten(File(b), b), File(b))
  /\ Goto(b, IF Cfg(b) = "top" /\ "runlevel" \notin DOMAIN screen[b].fields
             THEN "menu" ELSE "flush")
  /\ OthersStale(b)
  /\ Overtakes(b)
  /\ UNCHANGED <<archive, up, forms, faults, config>>

Flush(b) ==
  /\ At(b, "flush")
  /\ Put(File(b), Overwrite(Read(File(b)), PageContent(Cfg(b), screen[b].fields)))
  /\ Record(b)
  /\ Goto(b, "menu")
  /\ UNCHANGED <<archive, up, screen, forms, faults, raced, overtaken>>

(* No room in /etc/rw: nobody looks at what fclose or write return *)
FlushFails(b) ==
  /\ At(b, "flush") /\ faults < MaxFaults
  /\ faults' = faults + 1
  /\ raced' = raced \cup {File(b)}
  /\ Goto(b, "menu")
  /\ UNCHANGED <<files, archive, up, screen, forms, overtaken, config>>

(* Text files are opened without O_TRUNC and written at once *)
WriteText(b) ==
  /\ Called(b, "write") /\ Cfg(b) \in TextPages /\ ~ NoName(b)
  /\ Put(File(b), TextContent(Cfg(b), Read(File(b)), screen[b].fields))
  /\ Record(b)
  /\ Goto(b, "menu")
  /\ OthersStale(b)
  /\ Overtakes(b)
  /\ UNCHANGED <<archive, up, forms, faults, raced>>

(* The file cannot be opened.  cipe and top go on as if it were written, *)
(* network writes through the null pointer, the others give a message.   *)
OpenFails(b) ==
  /\ Called(b, "write")
  /\ \/ NoName(b) /\ UNCHANGED faults
     \/ ~ NoName(b) /\ faults < MaxFaults /\ faults' = faults + 1
  /\ CASE Cfg(b) \in {"cipe", "top"} -> Goto(b, "menu") /\ UNCHANGED screen
       [] Cfg(b) = "network"         -> Exit(b, Blank)
       [] OTHER                      -> Exit(b, Error)
  /\ UNCHANGED <<files, archive, up, forms, history>>

-----------------------------------------------------------------------------
(* SAVE: /bin/save_config, then /sbin/reboot *)

SaveConfig(b) ==
  /\ Called(b, "save")
  /\ archive' = [files |-> files, config |-> config]
  /\ raced' = raced \cup {File(c) : c \in {d \in Browsers : At(d, "flush")}}
  /\ Goto(b, "reboot")
  /\ UNCHANGED <<files, up, screen, forms, faults, overtaken, config>>

(* /etc/rc finds the run level in the file, or does nothing *)
Reboot(b) ==
  /\ At(b, "reboot")
  /\ files'  = archive.files
  /\ config' = archive.config
  /\ up'     = HasRunlevel(archive.files)
  /\ screen' = [c \in Browsers |-> Blank]
  /\ proc'   = [c \in Browsers |-> Idle]
  /\ UNCHANGED <<archive, forms, faults, raced, overtaken>>

-----------------------------------------------------------------------------
Init ==
  /\ files = Shipped
  /\ config = [p \in DOMAIN Shipped |-> FileValues(p, Shipped[p])]
  /\ archive = [files |-> files, config |-> config]
  /\ up = TRUE
  /\ screen = [b \in Browsers |-> TopMenu]
  /\ proc = [b \in Browsers |-> Idle]
  /\ forms = 0 /\ faults = 0
  /\ raced = {} /\ overtaken = {}

User(b) ==
  \/ Visit(b)
  \/ \E page \in Pages[b] : Follow(b, page)
  \/ \E click \in {"OK", "CANCEL", "SAVE"} : Press(b, click)
  \/ \E name \in Names \cup {"New", "__new"} : Choose(b, name)
  \/ \E gw \in ToSet(EnabledDisabled) : ChooseMode(b, gw)
  \/ \E k \in Editable \cap DOMAIN screen[b].fields :
       \E v \in Enterable(screen[b].page, k) : Enter(b, k, v)
  \/ \E name \in Names \cup {""} : EnterName(b, name)

Cgi(b) ==
  \/ ShowTop(b) \/ ShowPage(b) \/ ShowStatus(b)
  \/ OpenFile(b) \/ Flush(b) \/ FlushFails(b) \/ WriteText(b) \/ OpenFails(b)
  \/ SaveConfig(b) \/ Reboot(b)

Next == \E b \in Browsers : User(b) \/ Cgi(b)

Spec == Init /\ [][Next]_vars
-----------------------------------------------------------------------------
(* Properties *)

(* What the variables hold. *)
TypeOK ==
  /\ \A path \in DOMAIN files : files[path] \in Seq(ToSet(files[path]))
  /\ DOMAIN config \subseteq DOMAIN files
  /\ DOMAIN archive.config \subseteq DOMAIN archive.files
  /\ up \in BOOLEAN
  /\ \A b \in Browsers :
       /\ screen[b].page \in Pages[b] \cup {"top", "none", "error"}
       /\ proc[b].pc \in {"idle", "main", "flush", "menu", "reboot"}
       /\ At(b, "flush") => screen[b].page \in KeywordPages \cup {"top"}
  /\ forms \in 0 .. MaxForms /\ faults \in 0 .. MaxFaults

(* Pressing OK stores what the user changed and nothing else: through menu, form, *)
(* hidden fields, mode changes, writer and reader, every value of a page's file   *)
(* is the one last entered, or the one that was there.  It is said of files that  *)
(* no two requests used at once, no older form overwrote and no peer with a ":"   *)
(* in it was saved to (a part of it becomes the port).  Outside it: a value       *)
(* that the page does not offer (the form changes it to the first option), the    *)
(* lease file and the keep alive timer (fixed by the page), and what a longer     *)
(* text leaves behind a shorter one.                                              *)
Fixed(page, k, v) ==
  \/ k \in {"lease_file", "ping"}
  \/ page = "top" /\ v \notin ToSet(OptionList(<<"2", "3", "4">>))
  \/ page \in KeywordPages /\ k \in DOMAIN PageChoices(page)
       /\ v \notin ToSet(PageChoices(page)[k])

Undisturbed(path) == /\ path \notin raced \cup overtaken
                     /\ \A b \in Browsers : At(b, "flush") => File(b) # path

EditsKept ==
  \A path \in DOMAIN files : Undisturbed(path) =>
    LET stored == FileValues(path, files[path])
    IN  \A k \in DOMAIN config[path] :
          IF PageOf(path) \in TextPages THEN IsPrefix(config[path][k], stored[k])
          ELSE stored[k] = config[path][k] \/ Fixed(PageOf(path), k, config[path][k])

(* A menu's reader does not survive a line it does not know.  It only meets one    *)
(* when two requests wrote the file at the same time, or in a file that is still   *)
(* as it was before any page wrote it: whatever a page writes, its menu can read.  *)
ReadableAsWritten ==
  \A path \in DOMAIN files \ raced :
    Crashes(PageOf(path), files[path]) => path \in Foreign /\ files[path] = Shipped[path]

(* The access point comes up with a run level after every SAVE, unless the file    *)
(* was saved, or stored in flash, while another request had emptied it.            *)
BootsUnlessRaced == up \/ <<"runlevel">> \in raced
=============================================================================
