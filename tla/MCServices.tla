------------------------------ MODULE MCServices ------------------------------
(***************************************************************************)
(* Instances of Services and Discovery: one client that tries every        *)
(* operation in every form, two that race, the terminal UI beside a client *)
(* while the simulator restarts, and Probes against a device that hides.   *)
(***************************************************************************)
EXTENDS Discovery

\* TLC evaluates a definition once, and one that replaces a constant every time it is used:
\* those that replace constants only name another.
SiblingOf ==
    [t \in Tokens |->
        CASE t = "main" -> "main_JPEG" [] t = "side" -> "side_JPEG" [] OTHER -> None]
SideNames == <<"side", "side_2", "side_3">>

Installed ==
    [section |->
         [s \in Sections |-> CASE s = "Users" -> {"admin"} [] s = "Scopes" -> {"house"}
                               [] OTHER -> {}],
     profiles |->
         [t \in Tokens |-> IF t = "main" THEN [NewProfile EXCEPT !.path = TRUE] ELSE None]]

Scenario(clients, failures) ==
    [clients |-> clients, network |-> FALSE, starts |-> 1, stops |-> 0, probes |-> 0,
     failures |-> failures]
MCScenarios ==
    {Scenario({"tourist"}, 1),
     Scenario({"ann", "bob"}, 0),
     Scenario({"screen", "watcher"}, 0),
     [Scenario({"keeper"}, 0) EXCEPT !.network = TRUE, !.starts = 2, !.stops = 1, !.probes = 1]}
TurnsOf == [c \in Clients |-> IF c = "watcher" THEN 1 ELSE 2]

Ask(service, op) ==
    [service |-> service, op |-> op, form |-> "soap", header |-> FALSE,
     caller |-> {"Administrator"}, items |-> <<"x">>, token |-> "main", on |-> TRUE]
Given(r, items) == [r EXCEPT !.items = items]
About(r, t) == [r EXCEPT !.token = t]
Off(r) == [r EXCEPT !.on = FALSE]
Names(service) == {o.name : o \in Operations[service]}
Device(op) == Ask("device", op)
Media(op) == Ask("media", op)
UI(op) == Ask("ui", op)

SOAPServices == {"device", "media", "events", "subscription"}
Everything == UNION {{Ask(s, n) : n \in Names(s)} : s \in SOAPServices}
Unknown == {Ask(s, "Nothing") : s \in SOAPServices}
Contents ==
    {Given(r, items) : r \in {e \in Everything : Edits(e)}, items \in {<<>>, <<"bad">>}}
        \cup {Given(Device(op), items) :
                 op \in {"CreateUsers", "SetUser", "DeleteUsers"},
                 items \in {<<"x", "x">>, <<"x", "bad">>, <<"admin">>, <<"admin", "x">>}}
Subjects ==
    {About(Off(Media(op)), t) :
        op \in {"GetProfile", "GetStreamUri", "GetSnapshotUri", "GetVideoSourceConfiguration",
                "GetVideoEncoderConfiguration", "DeleteProfile"},
        t \in {"main_JPEG", "side"}}
        \cup {About(Media("CreateProfile"), t) : t \in {None, "side"}}
Forms ==
    {[Ask(s, n) EXCEPT !.form = f] :
        f \in {"get", "large", "mangled", "blank", "unaddressed"},
        s \in SOAPServices, n \in {"GetServiceCapabilities", "CreateProfile",
                                   "SetNetworkInterfaces", "Renew"}}
        \cup {[Media("GetProfiles") EXCEPT !.form = "broken", !.header = h, !.caller = c] :
                 h \in BOOLEAN, c \in {None, {}, {"Operator"}, {"Administrator"}}}
Callers ==
    {[r EXCEPT !.caller = c] :
        r \in {Device("GetHostname"), Device("GetScopes"), Device("GetUsers"),
               Device("SetHostname"), Device("SystemReboot"), Media("GetProfiles"),
               Media("CreateProfile"), Ask("events", "Subscribe"),
               Ask("subscription", "PullMessages")},
        c \in {None, {}, {"Extended"}, {"User"}, {"Operator"}, {"User", "Operator"}}}

Menu ==
    [tourist |-> Everything \cup Unknown \cup Contents \cup Subjects \cup Forms \cup Callers,
     ann |-> {About(Media("CreateProfile"), None), About(Media("DeleteProfile"), "side"),
              Device("SetHostname"), Given(Device("CreateUsers"), <<"x", "y">>)},
     bob |-> {About(Media("CreateProfile"), "side"), About(Media("DeleteProfile"), "side"),
              Device("GetHostname"), Given(Device("SetHostname"), <<"y">>),
              Given(Device("DeleteUsers"), <<"admin">>)},
     screen |-> {UI(op) : op \in Names("ui")}
                    \cup {Off(UI(op)) : op \in {n \in Names("ui") : AltersProfile(UI(n))}}
                    \cup {About(UI(op), "side") : op \in {"AddProfile", "SetProfileMediaFilePath"}},
     watcher |-> {Media("GetProfiles"), Media("GetSnapshotUri"), Device("GetHostname"),
                  About(Media("CreateProfile"), "side")},
     keeper |-> {Device("SetDiscoveryMode"), Given(Device("SetDiscoveryMode"), <<>>),
                 Given(Device("SetScopes"), <<"elsewhere">>)}]

Probing(scopes, rule) == [valid |-> TRUE, types |-> {}, scopes |-> scopes, rule |-> rule]
Datagrams ==
    {Probing({}, "rfc"), [Probing({}, "rfc") EXCEPT !.valid = FALSE],
     [Probing({}, "rfc") EXCEPT !.types = {"tds:Device"}],
     [Probing({}, "rfc") EXCEPT !.types = {"dn:NetworkVideoTransmitter"}],
     Probing({"street"}, "rfc"), Probing({"street"}, "strcmp0"), Probing({"house"}, "strcmp0"),
     Probing({"house"}, "other"), Probing({"dotted"}, "rfc"), Probing({"house", "elsewhere"}, "rfc")}
Paths ==
    [i \in Items |-> CASE i = "street" -> <<"street">> [] i = "house" -> <<"street", "house">>
                         [] i = "dotted" -> <<"lane", "..">> [] OTHER -> <<i>>]
Hosts == [i \in Items |-> IF i = "elsewhere" THEN "there" ELSE "here"]

MCSibling == SiblingOf
MCCandidates == SideNames
MCFirst == Installed
MCTurns == TurnsOf
MCRequests == Menu
MCProbes == Datagrams
MCAuthority == Hosts
MCPath == Paths
=============================================================================
