---------------------------------- MODULE Net ----------------------------------
(***************************************************************************)
(* The network daemon, src/vakt-net: it reads the configuration the panel   *)
(* writes (src/tools/cmd/vakt-panel/vaktnet.go), starts wpa_supplicant and  *)
(* udhcpc, and watches that an address stays.  Both helpers run in the      *)
(* background and outlive the daemon that started them; udhcpc sets the     *)
(* interface's addresses through a script, src/build.sh.                    *)
(*                                                                          *)
(* An address is named after the network it belongs to, or Static.  Routes  *)
(* and resolvers, which come and go with an address, are left out.          *)
(***************************************************************************)
EXTENDS Integers, Sequences

CONSTANTS
    Wire, Radio,        \* the wired and the wireless interface
    Ssids,              \* wireless networks
    NoSsid,             \* a configuration without ssid=
    Unnamed,            \* a configuration without interface=
    Static,             \* an address set by hand
    Texts,              \* what the panel or a user may write to the file
    Fallbacks,          \* what the image may have for a configuration, or NoFile
    Empty,              \* the placeholder, and a file that was just truncated
    NoFile,
    MaxWrites,          \* bound: writes of the file
    MaxEvents,          \* bound: networks and cables that come and go
    MaxFaults           \* bound: daemons and helpers that die

\* What a file says, as far as it decides what the daemon does: an address
\* comes from DHCP, or is set "whole" or, without a prefix length, "bare".
Configurations ==
    {c \in [ssid : Ssids \cup {NoSsid}, iface : {Wire, Radio, Unnamed},
            address : {"dhcp", "whole", "bare"}] :
        c.iface = Wire => c.ssid = NoSsid}

ASSUME NetAssumption ==
    /\ Wire # Radio /\ Unnamed \notin {Wire, Radio}
    /\ NoSsid \notin Ssids /\ Static \notin Ssids
    /\ {"none", "seeking"} \cap (Ssids \cup {Wire}) = {}
    /\ Texts \subseteq Configurations
    /\ Fallbacks \subseteq Texts \cup {NoFile}
    /\ Empty \notin Texts /\ NoFile \notin Texts \cup {Empty}
    /\ MaxWrites \in Nat
    /\ MaxEvents \in Nat
    /\ MaxFaults \in Nat

VARIABLES
    file,               \* the configuration file: its text and its mtime
    fallback,           \* the configuration baked into the image, which stays
    panel,              \* writeNetConfig: the text it is to write, or Idle
    writes,
    granted,            \* the Landlock ruleset names the file that is there
    pc,                 \* the next step of the daemon
    stamp,              \* the mtime it read
    cfg,                \* the configuration in use
    announced,          \* readiness was reported
    status,             \* the status file
    supplicant,         \* the network wpa_supplicant looks for
    wpaPid,             \* its pid file exists
    joined,             \* the network the radio is associated with
    old,                \* where a supplicant still is that was told to end
    outlived,           \* history: one outlived the last start of another
    cable,              \* something is plugged in
    air,                \* the wireless networks in range
    client,             \* the udhcpc of each interface
    addrs,              \* the addresses of each interface, in order
    lost,               \* history: where udhcpc died since it was last started
    events, faults

fileVars == <<file, fallback, panel, writes, granted>>
daemonVars == <<pc, stamp, cfg, announced, status>>
radioVars == <<supplicant, wpaPid, joined, old, outlived>>
dhcpVars == <<client, addrs, lost>>
airVars == <<cable, air, events>>
vars == <<fileVars, daemonVars, radioVars, dhcpVars, airVars, faults>>

-----------------------------------------------------------------------------
Interfaces == {Wire, Radio}
NoNetwork == NoSsid
Scanning == Unnamed     \* a supplicant without a network block
NoStamp == 0
FallbackStamp == -1
Idle == NoFile

\* parse: an interface that is not named depends on there being an ssid; the
\* text of an empty file is a wired configuration.
Parse(text) ==
    LET keys == IF text \in Texts THEN text
                ELSE [ssid |-> NoSsid, iface |-> Unnamed, address |-> "dhcp"]
    IN  [keys EXCEPT !.iface =
            IF @ # Unnamed THEN @ ELSE IF keys.ssid # NoSsid THEN Radio ELSE Wire]

Wired == Parse(Empty)
Wireless(c) == c.ssid # NoSsid

\* config_path: the persistent file before the baked one; an empty file is no
\* configuration.
Persistent == file.text \in Texts
Usable == Persistent \/ fallback # NoFile
Active == IF Persistent THEN file.text ELSE fallback

\* config_stamp
Stamp == IF Persistent THEN file.mtime
         ELSE IF Usable THEN FallbackStamp ELSE NoStamp

\* The network behind an interface, by its name as an address.
Network(i) == IF i = Radio THEN joined ELSE IF cable THEN Wire ELSE NoNetwork
Carrier(i) == Network(i) # NoNetwork

\* interface_address: the first of them, if there is one.
HasAddress(i) == addrs[i] # <<>>
FirstAddress(i) == Head(addrs[i])

AddedAgain(i, a) == [addrs EXCEPT ![i] = Append(@, a)]

\* ip addr replace
Added(i, a) ==
    [addrs EXCEPT ![i] =
        IF \E k \in DOMAIN @ : @[k] = a THEN @ ELSE Append(@, a)]

Fault == faults < MaxFaults /\ faults' = faults + 1

\* status::write, of a state under a configuration.
Shows(state, c, ip) ==
    status' = [state |-> state, ssid |-> c.ssid, address |-> c.address, ip |-> ip]

\* announce: readiness the first time, a status line after that.
Announce == announced' = TRUE

-----------------------------------------------------------------------------
NetInit ==
    /\ file \in {[text |-> t, mtime |-> 1] : t \in Texts \cup {NoFile}}
    /\ fallback \in Fallbacks
    /\ panel = Idle /\ writes = 0 /\ granted = FALSE
    /\ pc = "start" /\ stamp = NoStamp /\ cfg = Wired /\ announced = FALSE
    /\ status = [state |-> "none", ssid |-> NoSsid, address |-> "dhcp", ip |-> NoNetwork]
    /\ supplicant = NoNetwork /\ wpaPid = FALSE /\ joined = NoNetwork
    /\ old = NoNetwork /\ outlived = FALSE
    /\ cable \in BOOLEAN /\ air \in {{}, Ssids}
    /\ client = [i \in Interfaces |-> "none"]
    /\ addrs = [i \in Interfaces |-> <<>>] /\ lost = {}
    /\ events = 0 /\ faults = 0

(***************************************************************************)
(* The panel.                                                               *)
(***************************************************************************)
\* writeNetConfig: the file is truncated in place, or created, ...
Truncate ==
    /\ panel = Idle
    /\ writes < MaxWrites
    /\ writes' = writes + 1
    /\ panel' \in Texts
    /\ file' = [text |-> Empty, mtime |-> file.mtime + 1]
    /\ UNCHANGED <<fallback, granted, daemonVars, radioVars, dhcpVars, airVars, faults>>

\* ... and then written.
Written ==
    /\ panel # Idle
    /\ file' = [text |-> panel, mtime |-> file.mtime + 1]
    /\ panel' = Idle
    /\ UNCHANGED <<fallback, writes, granted, daemonVars, radioVars, dhcpVars, airVars,
                   faults>>

(***************************************************************************)
(* The daemon.                                                              *)
(***************************************************************************)
\* ensure_config_placeholder: the file as it leaves it
Placeholder == IF file.text = NoFile THEN [file EXCEPT !.text = Empty] ELSE file

\* main: the placeholder, which may fail, then the ruleset, which names what
\* is there.
Start ==
    /\ pc = "start"
    /\ pc' = "stamp"
    /\ \/ /\ file' = Placeholder
          /\ granted' = TRUE /\ faults' = faults
       \/ /\ file.text = NoFile /\ Fault
          /\ UNCHANGED <<file, granted>>
    /\ UNCHANGED <<fallback, panel, writes, stamp, cfg, announced, status, radioVars,
                   dhcpVars, airVars>>

\* The stamp is read before the configuration is.
ReadStamp ==
    /\ pc = "stamp"
    /\ pc' = "load"
    /\ stamp' = Stamp
    /\ UNCHANGED <<fileVars, cfg, announced, status, radioVars, dhcpVars, airVars,
                   faults>>

\* load looks whether there is a configuration, and which: the baked one, which
\* stays as it is and is always in the ruleset, may as well be read at once.
FindConfig ==
    /\ pc = "load"
    /\ IF ~Persistent /\ Usable
       THEN cfg' = Parse(fallback) /\ Shows("connecting", cfg', NoNetwork) /\ pc' = "connect"
       ELSE pc' = (IF Persistent THEN "read" ELSE "cable") /\ UNCHANGED <<cfg, status>>
    /\ UNCHANGED <<fileVars, stamp, announced, radioVars, dhcpVars, airVars, faults>>

\* The persistent one is read whatever it says by then.
ReadConfig ==
    /\ pc = "read"
    /\ IF granted
       THEN /\ cfg' = Parse(file.text)
            /\ Shows("connecting", cfg', NoNetwork)
            /\ pc' = "connect"
       ELSE pc' = "cable" /\ UNCHANGED <<cfg, status>>
    /\ UNCHANGED <<fileVars, stamp, announced, radioVars, dhcpVars, airVars, faults>>

\* Without one, a cable is a network; ...
UseCable ==
    /\ pc = "cable" /\ cable
    /\ cfg' = Wired
    /\ Shows("connecting", Wired, NoNetwork)
    /\ pc' = "connect"
    /\ UNCHANGED <<fileVars, stamp, announced, radioVars, dhcpVars, airVars, faults>>

\* start_scanner: a supplicant without a network, unless there is one, or its
\* pid file.
StartScanner ==
    /\ supplicant' = IF wpaPid THEN supplicant ELSE Scanning
    /\ wpaPid' = TRUE
    /\ UNCHANGED <<joined, old, outlived>>

\* ... without a cable, a supplicant is started that can scan for the panel,
\* and boot need not wait.
Unconfigured ==
    /\ pc = "cable" /\ ~cable
    /\ Shows("unconfigured", Wired, NoNetwork)
    /\ Announce
    /\ StartScanner
    /\ pc' = "waiting"
    /\ UNCHANGED <<fileVars, stamp, cfg, dhcpVars, airVars, faults>>

FailsSilently ==
    /\ Shows("failed", cfg, NoNetwork)
    /\ pc' = "waiting"
    /\ UNCHANGED <<stamp, cfg, announced>>

\* connect returned an error: it is shown, it is a settled answer for boot,
\* and the daemon backs off.
Fails ==
    /\ Shows("failed", cfg, NoNetwork)
    /\ Announce
    /\ pc' = "waiting"
    /\ UNCHANGED <<stamp, cfg>>

\* connect goes on to its next step.
Continues(step) == pc' = step /\ UNCHANGED <<stamp, cfg, announced, status>>

\* stop_previous_supplicant: SIGTERM and 300 ms, whatever comes of it.  One that is on
\* its network and outlives them, one at a time, stays there for a while.
StopSupplicant(outlives) ==
    /\ outlives => joined # NoNetwork /\ old = NoNetwork
    /\ old' = IF outlives THEN joined ELSE old
    /\ joined' = IF joined = old' THEN joined ELSE NoNetwork
    /\ outlived' = (old' # NoNetwork)

\* start_supplicant, in place of the one that was stopped.
Supplicant(network) == supplicant' = network /\ wpaPid' = (network # NoNetwork)

\* connect: there is no such interface, or no radio; or the supplicant of
\* before is told to end, and one for this network started, which may refuse to.
Connect ==
    /\ pc = "connect"
    /\ \/ Fault /\ Fails /\ UNCHANGED radioVars
       \/ /\ Wireless(cfg) /\ Fault
          /\ \E outlives \in BOOLEAN : StopSupplicant(outlives)
          /\ Supplicant(NoNetwork) /\ Fails
       \/ /\ Wireless(cfg) /\ Supplicant(cfg.ssid) /\ Continues("joining")
          /\ \/ StopSupplicant(FALSE) /\ faults' = faults
             \/ StopSupplicant(TRUE) /\ Fault
       \/ ~Wireless(cfg) /\ Continues("address") /\ UNCHANGED <<radioVars, faults>>
    /\ UNCHANGED <<fileVars, dhcpVars, airVars>>

\* wait_for_carrier, or the time for it is over.
Join ==
    /\ pc = "joining"
    /\ IF Carrier(cfg.iface) THEN Continues("address") ELSE Fails
    /\ UNCHANGED <<fileVars, radioVars, dhcpVars, airVars, faults>>

ConnectedRestamps(ip) ==
    /\ Shows("connected", cfg, ip)
    /\ Announce
    /\ stamp' = Stamp
    /\ pc' = "monitor"
    /\ UNCHANGED cfg

\* connect returned an address.
Connected(ip) ==
    /\ Shows("connected", cfg, ip)
    /\ Announce
    /\ pc' = "monitor"
    /\ UNCHANGED <<stamp, cfg>>

\* configure_static: the address is set, beside what is there already.  One without
\* a prefix length is refused before, one the kernel will not have then, and a
\* gateway it will not have after that.
ConfigureStatic ==
    /\ pc = "address" /\ cfg.address # "dhcp"
    /\ \/ /\ cfg.address = "whole"
          /\ addrs' = Added(cfg.iface, Static)
          /\ Connected(Head(addrs'[cfg.iface])) /\ faults' = faults
       \/ /\ cfg.address = "whole"
          /\ addrs' \in {addrs, Added(cfg.iface, Static)}
          /\ Fails /\ Fault
       \/ addrs' = addrs /\ cfg.address = "bare" /\ Fails /\ faults' = faults
    /\ UNCHANGED <<fileVars, radioVars, client, lost, airVars>>

\* The interface's client of before is stopped, and another ...
Client(started) ==
    /\ client' = [client EXCEPT ![cfg.iface] = IF started THEN "seeking" ELSE "none"]
    /\ lost' = lost \ {cfg.iface}

RequestLeaseKeeps ==
    /\ pc = "address" /\ cfg.address = "dhcp"
    /\ Client(TRUE)
    /\ Continues("lease")
    /\ UNCHANGED <<fileVars, addrs, radioVars, airVars, faults>>

\* request_lease: ... is started, which begins with the script's deconfig, or could
\* not be.
RequestLease ==
    /\ pc = "address" /\ cfg.address = "dhcp"
    /\ \/ /\ Client(TRUE)
          /\ addrs' = [addrs EXCEPT ![cfg.iface] = <<>>]
          /\ Continues("lease") /\ faults' = faults
       \/ Client(FALSE) /\ addrs' = addrs /\ Fails /\ Fault
    /\ UNCHANGED <<fileVars, radioVars, airVars>>

\* poll: there is an address, or the time for it is over.
Lease ==
    /\ pc = "lease"
    /\ IF HasAddress(cfg.iface) THEN Connected(FirstAddress(cfg.iface)) ELSE Fails
    /\ UNCHANGED <<fileVars, radioVars, dhcpVars, airVars, faults>>

\* monitor: a changed file or a lost address makes the daemon start over.
Monitor ==
    /\ pc = "monitor"
    /\ IF Stamp # stamp \/ ~HasAddress(cfg.iface)
       THEN Continues("stamp")
       ELSE /\ Shows("connected", cfg, FirstAddress(cfg.iface))
            /\ UNCHANGED <<pc, stamp, cfg, announced>>
    /\ UNCHANGED <<fileVars, radioVars, dhcpVars, airVars, faults>>

WaitForChange ==
    /\ pc = "waiting" /\ Stamp # stamp
    /\ Continues("stamp")
    /\ UNCHANGED <<fileVars, radioVars, dhcpVars, airVars, faults>>

\* wait_for_config_change: at a change, or when the time is over.
Wait ==
    /\ pc = "waiting"
    /\ Continues("stamp")
    /\ UNCHANGED <<fileVars, radioVars, dhcpVars, airVars, faults>>

(***************************************************************************)
(* The helpers, the networks and the machine.                               *)
(***************************************************************************)
\* wpa_supplicant finds its network.
Associate ==
    /\ supplicant \in air
    /\ joined = NoNetwork
    /\ joined' = supplicant
    /\ UNCHANGED <<fileVars, daemonVars, supplicant, wpaPid, old, outlived, dhcpVars,
                   airVars, faults>>

\* The one that was told to end does.
OldEnds ==
    /\ old # NoNetwork
    /\ old' = NoNetwork
    /\ joined' = IF joined = supplicant THEN joined ELSE NoNetwork
    /\ UNCHANGED <<fileVars, daemonVars, supplicant, wpaPid, outlived, dhcpVars,
                   airVars, faults>>

\* A network answers udhcpc, and the script's bound sets the address.
Bind(i) ==
    /\ client[i] = "seeking" /\ Carrier(i)
    /\ client' = [client EXCEPT ![i] = Network(i)]
    /\ addrs' = Added(i, Network(i))
    /\ UNCHANGED <<fileVars, daemonVars, radioVars, lost, airVars, faults>>

\* The lease runs out, or the network the client is on now refuses it: the
\* script's deconfig, and the client asks again.
Expire(i) ==
    /\ client[i] \notin {"none", "seeking", Network(i)}
    /\ client' = [client EXCEPT ![i] = "seeking"]
    /\ addrs' = [addrs EXCEPT ![i] = <<>>]
    /\ UNCHANGED <<fileVars, daemonVars, radioVars, lost, airVars, faults>>

\* A cable is plugged or pulled; a network comes into range or leaves it.
Event ==
    /\ events < MaxEvents
    /\ events' = events + 1
    /\ \/ cable' = ~cable /\ UNCHANGED <<air, joined>>
       \/ \E n \in Ssids :
            /\ air' = IF n \in air THEN air \ {n} ELSE air \cup {n}
            /\ joined' = IF joined \in air' THEN joined ELSE NoNetwork
            /\ cable' = cable
    /\ UNCHANGED <<fileVars, daemonVars, supplicant, wpaPid, old, outlived, dhcpVars,
                   faults>>

\* A helper dies; its pid file, and the addresses it set, stay.
HelperDies ==
    /\ Fault
    /\ \/ /\ supplicant' = NoNetwork
          /\ joined' = IF joined = old THEN joined ELSE NoNetwork
          /\ UNCHANGED <<client, lost>>
       \/ \E i \in Interfaces :
            /\ client[i] # "none"
            /\ client' = [client EXCEPT ![i] = "none"]
            /\ lost' = lost \cup {i}
            /\ UNCHANGED <<supplicant, joined>>
    /\ UNCHANGED <<fileVars, daemonVars, wpaPid, old, outlived, addrs, airVars>>

\* The daemon dies, and vakt-init starts it again; the helpers live on.
DaemonDies ==
    /\ Fault
    /\ pc' = "start" /\ stamp' = NoStamp /\ cfg' = Wired /\ announced' = FALSE
    /\ granted' = FALSE
    /\ UNCHANGED <<file, fallback, panel, writes, status, radioVars, dhcpVars, airVars>>

-----------------------------------------------------------------------------
Daemon ==
    \/ Start \/ ReadStamp \/ FindConfig \/ ReadConfig \/ UseCable \/ Unconfigured
    \/ Connect \/ Join \/ ConfigureStatic \/ RequestLease \/ Lease
    \/ Monitor \/ Wait

NetNext ==
    \/ Truncate \/ Written
    \/ Daemon
    \/ Associate \/ OldEnds \/ (\E i \in Interfaces : Bind(i) \/ Expire(i))
    \/ Event \/ HelperDies \/ DaemonDies

NetSpec == NetInit /\ [][NetNext]_vars

\* Processes run.  A network in range answers in time, if not always: time
\* and again while the daemon waits for it.
FairNetSpec ==
    /\ NetSpec
    /\ WF_vars(Daemon) /\ WF_vars(Written) /\ WF_vars(Associate) /\ WF_vars(OldEnds)
    /\ \A i \in Interfaces : WF_vars(Bind(i)) /\ WF_vars(Expire(i))
    /\ SF_vars(pc = "joining" /\ Associate)
    /\ SF_vars(pc = "lease" /\ Bind(cfg.iface))

-----------------------------------------------------------------------------
\* Every variable has its type; no interface has more than the address of a
\* lease and the one set by hand.
NetTypeOK ==
    /\ file.text \in Texts \cup {Empty, NoFile}
    /\ fallback \in Fallbacks
    /\ panel \in Texts \cup {Idle}
    /\ granted => file.text # NoFile
    /\ pc \in {"start", "stamp", "load", "read", "cable", "connect",
              "joining", "address", "lease", "monitor", "waiting"}
    /\ stamp \in -1..file.mtime
    /\ cfg \in {Parse(t) : t \in Texts \cup {Empty}}
    /\ announced \in BOOLEAN
    /\ supplicant \in Ssids \cup {NoNetwork, Scanning}
    /\ old \in Ssids \cup {NoNetwork}
    /\ joined \in {supplicant, old, NoNetwork}
    /\ joined \in air \cup {NoNetwork}
    /\ \A i \in Interfaces :
        /\ client[i] \in Ssids \cup {Wire, "none", "seeking"}
        /\ Len(addrs[i]) <= 2
        /\ i \in lost => client[i] = "none"

\* The status file never shows a wireless network connected with an address
\* leased by another: an address of before does not make a reconnect succeed
\* (main.rs:271-280, connect polls for whatever address there is).  Unless the
\* supplicant of before outlived its SIGTERM and the 300 ms: while it does, the
\* radio is on its network.
LeaseIsFromConfigured ==
    status.state = "connected" /\ status.ssid # NoSsid /\ status.address = "dhcp"
        => status.ip = status.ssid \/ outlived

\* What the panel saved last is what the daemon uses in the end, whenever it
\* looked at the file (main.rs:63-65, and monitor and wait_for_config_change),
\* unless there was no file to name when the ruleset was sealed; without one it
\* uses what is baked into the image.
ConfigTakesEffect ==
    <>[](Usable /\ (Persistent => granted) => cfg = Parse(Active))

\* The daemon settles and reports it, whether or not there is a configuration,
\* a cable or a network: boot waits for it (main.rs:56-60).
Announces == []<>announced

\* The network that is wanted: of the configuration there is, or the cable.
Wanted == IF Usable THEN Parse(Active) ELSE Wired
WantedNetwork == IF Wireless(Wanted) THEN Wanted.ssid ELSE Wire

Reachable ==
    /\ Wanted.address = "dhcp" /\ (Persistent => granted)
    /\ IF Wireless(Wanted) THEN Wanted.ssid \in air ELSE Wanted.iface = Wire /\ cable
    /\ Wanted.iface \notin lost

\* A configured wireless network that stays in range, and a cable that stays
\* in when nothing is configured, are connected in the end, without another
\* edit, and shown with an address of theirs.  Only where udhcpc died, and was not
\* started again, is nothing expected: that is not noticed while its address is
\* there.
Recovers ==
    <>[]Reachable
        => <>[](status.state = "connected" /\ Network(Wanted.iface) = WantedNetwork
                /\ status.ip = WantedNetwork)

\* OPERATIONS.md:255 and config.rs:15-16: a static address skips DHCP entirely.
StaticSkipsDhcp ==
    pc = "monitor" /\ cfg.address # "dhcp" => client[cfg.iface] = "none"

\* main.rs:402: monitor returns when the link drops.
DropIsNoticed ==
    \A c \in Texts :
        Wireless(c) =>
            [](pc = "monitor" /\ cfg = Parse(c) /\ joined # c.ssid
               => <>(pc # "monitor" \/ joined = c.ssid))
=============================================================================
