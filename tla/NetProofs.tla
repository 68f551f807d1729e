------------------------------ MODULE NetProofs ------------------------------
(***************************************************************************)
(* What vakt-net shows in its status file belongs to the network it was     *)
(* configured for, for any networks, configurations and interruptions.      *)
(***************************************************************************)
EXTENDS Net, SequenceTheorems, TLAPS

-----------------------------------------------------------------------------
(* The invariant.                                                           *)

Names == Ssids \cup {Wire, Static}

\* What may be on an interface: the address of a lease, one set by hand, or both.
Leased == {<<>>} \cup {<<a>> : a \in Names}
Held == Leased \cup {<<a, Static>> : a \in Names} \cup {<<Static, a>> : a \in Names}

Times == /\ file.mtime \in Nat
         /\ file = [text |-> file.text, mtime |-> file.mtime]

\* The networks, and the helpers that are still asking for an address.
HelperInv ==
    /\ air \subseteq Ssids
    /\ cable \in BOOLEAN
    /\ ~wpaPid => supplicant = NoNetwork
    /\ ~outlived => old = NoNetwork
    /\ DOMAIN client = Interfaces /\ DOMAIN addrs = Interfaces
    /\ \A i \in Interfaces :
        /\ addrs[i] \in Held
        /\ client[i] = "seeking" => addrs[i] \in {<<>>, <<Static>>}

\* While the daemon connects to a wireless network or watches it, nothing else
\* looks for another one, ...
RadioInv ==
    pc \in {"joining", "address", "lease", "monitor"} /\ Wireless(cfg) =>
        supplicant \in {cfg.ssid, NoNetwork}

\* ... and an address that is waited for can only be of that network, unless the
\* supplicant of another lives on.
LeaseInv ==
    pc \in {"lease", "monitor"} /\ Wireless(cfg) /\ cfg.address = "dhcp" =>
        addrs[Radio] \in {<<>>, <<cfg.ssid>>} \/ outlived

\* When the one before is stopped, what it led to is no longer shown.
ConnectInv == pc = "connect" => status.state # "connected"

NetInv ==
    /\ NetTypeOK
    /\ Times
    /\ HelperInv
    /\ RadioInv
    /\ LeaseInv
    /\ ConnectInv
    /\ LeaseIsFromConfigured

-----------------------------------------------------------------------------
(* Configurations and addresses.                                            *)

LEMMA ParseTypes ==
    ASSUME NEW t \in Texts \cup {Empty}
    PROVE  /\ Parse(t).ssid \in Ssids \cup {NoSsid}
           /\ Parse(t).iface \in Interfaces
           /\ Wireless(Parse(t)) => Parse(t).iface = Radio
  <1> DEFINE keys == IF t \in Texts THEN t
                     ELSE [ssid |-> NoSsid, iface |-> Unnamed, address |-> "dhcp"]
             named == IF keys.iface # Unnamed THEN keys.iface
                      ELSE IF keys.ssid # NoSsid THEN Radio ELSE Wire
  <1>1. /\ keys \in [ssid : Ssids \cup {NoSsid}, iface : {Wire, Radio, Unnamed},
                      address : {"dhcp", "whole", "bare"}]
        /\ keys.iface = Wire => keys.ssid = NoSsid
    BY NetAssumption DEF Configurations
  <1>2. Parse(t) = [keys EXCEPT !.iface = named]
    BY DEF Parse
  <1>3. Parse(t).ssid = keys.ssid /\ Parse(t).iface = named
    BY <1>1, <1>2
  <1>4. named \in Interfaces /\ (keys.ssid # NoSsid => named = Radio)
    BY <1>1 DEF Interfaces
  <1> QED
    BY <1>1, <1>3, <1>4 DEF Wireless

\* The configuration in use is one that was written, or the wired one.
LEMMA ConfigTypes ==
    ASSUME NetTypeOK
    PROVE  /\ cfg.ssid \in Ssids \cup {NoSsid}
           /\ cfg.iface \in Interfaces
           /\ Wireless(cfg) => cfg.ssid \in Ssids /\ cfg.iface = Radio
           /\ ~Wireless(Wired) /\ Wired \in {Parse(t) : t \in Texts \cup {Empty}}
  <1>1. PICK t \in Texts \cup {Empty} : cfg = Parse(t)
    BY DEF NetTypeOK
  <1>2. ~Wireless(Wired)
    BY NetAssumption DEF Wired, Parse, Wireless
  <1> QED
    BY <1>1, <1>2, ParseTypes, NetAssumption DEF Wireless, Wired

\* What ip addr replace makes of the addresses of an interface.
With(s, a) == IF \E k \in DOMAIN s : s[k] = a THEN s ELSE Append(s, a)

LEMMA AddedIs ==
    ASSUME NEW i \in Interfaces, NEW a, DOMAIN addrs = Interfaces
    PROVE  /\ DOMAIN Added(i, a) = Interfaces
           /\ Added(i, a)[i] = With(addrs[i], a)
           /\ \A j \in Interfaces \ {i} : Added(i, a)[j] = addrs[j]
  BY DEF Added, With

LEMMA WithNone == \A a : With(<<>>, a) = <<a>>
  BY DEF With

LEMMA WithOne == \A a, b : With(<<b>>, a) = IF a = b THEN <<b>> ELSE <<b, a>>
  <1> TAKE a, b
  <1>1. DOMAIN <<b>> = {1} /\ <<b>>[1] = b
    OBVIOUS
  <1>2. Append(<<b>>, a) = <<b, a>>
    <2> DEFINE s == Append(<<b>>, a)
    <2>1. <<b>> \in Seq({a, b}) /\ <<b, a>> \in Seq({a, b})
      OBVIOUS
    <2>2. s \in Seq({a, b}) /\ Len(s) = 2
      BY <2>1
    <2>3. s[1] = b /\ s[2] = a
      BY <2>1
    <2>4. \A i \in 1..2 : s[i] = <<b, a>>[i]
      BY <2>3
    <2> QED
      BY <2>1, <2>2, <2>4, SeqEqual
  <1> QED
    BY <1>1, <1>2 DEF With

LEMMA WithTwo == \A a, b, c : a \in {b, c} => With(<<b, c>>, a) = <<b, c>>
  <1> TAKE a, b, c
  <1>1. DOMAIN <<b, c>> = {1, 2} /\ <<b, c>>[1] = b /\ <<b, c>>[2] = c
    OBVIOUS
  <1> QED
    BY <1>1 DEF With

\* An address set by hand goes beside what there is, ...
LEMMA AddStatic == \A s \in Held : With(s, Static) \in Held
  <1> SUFFICES ASSUME NEW s \in Held
               PROVE  With(s, Static) \in Held
    OBVIOUS
  <1>1. Static \in Names
    BY DEF Names
  <1>2. CASE s = <<>>
    BY <1>1, <1>2, WithNone DEF Held, Leased
  <1>3. ASSUME NEW a \in Names, s = <<a>>
        PROVE  With(s, Static) \in Held
    BY <1>3, WithOne DEF Held, Leased
  <1>4. ASSUME NEW a \in Names, s \in {<<a, Static>>, <<Static, a>>}
        PROVE  With(s, Static) \in Held
    BY <1>4, WithTwo DEF Held
  <1> QED
    BY <1>2, <1>3, <1>4 DEF Held, Leased

\* ... as does that of a lease.
LEMMA AddLease ==
    ASSUME NEW s \in {<<>>, <<Static>>}, NEW a \in Names
    PROVE  With(s, a) \in Held
  <1>1. CASE s = <<>>
    BY <1>1, WithNone DEF Held, Leased
  <1>2. CASE s = <<Static>>
    <2>1. With(s, a) = <<Static>> \/ With(s, a) = <<Static, a>>
      BY <1>2, WithOne
    <2>2. <<Static>> \in Held
      BY DEF Held, Leased, Names
    <2> QED
      BY <2>1, <2>2 DEF Held
  <1> QED
    BY <1>1, <1>2

LEMMA HeldLength == \A s \in Held : Len(s) <= 2
  <1> SUFFICES ASSUME NEW s \in Held
               PROVE  Len(s) <= 2
    OBVIOUS
  <1>1. CASE s = <<>>
    BY <1>1
  <1>2. ASSUME NEW a \in Names, s = <<a>>
        PROVE  Len(s) <= 2
    BY <1>2
  <1>3. ASSUME NEW a \in Names, s = <<a, Static>>
        PROVE  Len(s) <= 2
    BY <1>3
  <1>4. ASSUME NEW a \in Names, s = <<Static, a>>
        PROVE  Len(s) <= 2
    BY <1>4
  <1>5. \/ s = <<>>
        \/ \E a \in Names : s = <<a>>
        \/ \E a \in Names : s = <<a, Static>>
        \/ \E a \in Names : s = <<Static, a>>
    BY DEF Held, Leased
  <1> QED
    BY <1>1, <1>2, <1>3, <1>4, <1>5

\* The network of an interface has a name, and no address is called like what
\* a udhcpc without one is.
LEMMA NetworkTypes ==
    ASSUME NetTypeOK, HelperInv, NEW i \in Interfaces
    PROVE  /\ Carrier(i) => Network(i) \in Ssids \cup {Wire}
           /\ Carrier(i) => Network(i) \notin {"none", "seeking"}
           /\ i = Radio => Network(i) = joined
  BY NetAssumption DEF Carrier, Network, NetTypeOK, HelperInv, NoNetwork

-----------------------------------------------------------------------------
(* Types.                                                                   *)

\* The stamp of the file is a time of the past.
LEMMA Stamps == NetTypeOK /\ Times => Stamp \in -1..file.mtime
  BY DEF NetTypeOK, Times, Stamp, NoStamp, FallbackStamp

\* The parts of the state's type, by who changes them.
FileTypes ==
    /\ file.text \in Texts \cup {Empty, NoFile}
    /\ fallback \in Fallbacks
    /\ panel \in Texts \cup {Idle}
    /\ granted => file.text # NoFile
    /\ stamp \in -1..file.mtime
    /\ Times

DaemonTypes ==
    /\ pc \in {"start", "stamp", "load", "read", "cable", "connect", "joining",
              "address", "lease", "monitor", "waiting"}
    /\ cfg \in {Parse(t) : t \in Texts \cup {Empty}}
    /\ announced \in BOOLEAN

RadioTypes ==
    /\ supplicant \in Ssids \cup {NoNetwork, Scanning}
    /\ old \in Ssids \cup {NoNetwork} /\ (~outlived => old = NoNetwork)
    /\ joined \in {supplicant, old, NoNetwork}
    /\ joined \in air \cup {NoNetwork}
    /\ air \subseteq Ssids /\ cable \in BOOLEAN
    /\ ~wpaPid => supplicant = NoNetwork

DhcpTypes ==
    /\ DOMAIN client = Interfaces /\ DOMAIN addrs = Interfaces
    /\ \A i \in Interfaces :
        /\ client[i] \in Ssids \cup {Wire, "none", "seeking"}
        /\ i \in lost => client[i] = "none"
        /\ addrs[i] \in Held
        /\ client[i] = "seeking" => addrs[i] \in {<<>>, <<Static>>}

Types == FileTypes /\ DaemonTypes /\ RadioTypes /\ DhcpTypes

LEMMA SameTypes == NetTypeOK /\ Times /\ HelperInv <=> Types
  BY HeldLength DEF NetTypeOK, HelperInv, Types, FileTypes, DaemonTypes, RadioTypes, DhcpTypes

LEMMA NextFile == Types /\ [NetNext]_vars => FileTypes'
  <1> SUFFICES ASSUME Types, [NetNext]_vars
               PROVE  FileTypes'
    OBVIOUS
  <1> USE DEF fileVars, daemonVars, radioVars, dhcpVars, airVars
  <1>1. CASE Truncate \/ Written
    <2>1. /\ file' = [text |-> file'.text, mtime |-> file.mtime + 1]
          /\ file'.mtime = file.mtime + 1
          /\ file'.text \in Texts \cup {Empty}
          /\ panel' \in Texts \cup {Idle}
          /\ stamp' = stamp /\ fallback' = fallback
      BY <1>1 DEF Truncate, Written, Types, FileTypes, Idle
    <2>2. file'.text # NoFile
      BY <2>1, NetAssumption
    <2> QED
      BY <2>1, <2>2 DEF Types, FileTypes, Times
  <1>2. CASE Start
    <2>1. /\ file'.mtime = file.mtime
          /\ file' = [text |-> file'.text, mtime |-> file'.mtime]
          /\ \/ file'.text = Empty
             \/ file'.text = file.text
          /\ granted' => file'.text # NoFile
          /\ panel' = panel /\ stamp' = stamp /\ fallback' = fallback
      BY <1>2, NetAssumption DEF Start, Placeholder, Types, FileTypes, Times
    <2> QED
      BY <2>1 DEF Types, FileTypes, Times
  <1>3. CASE file' = file /\ fallback' = fallback /\ panel' = panel /\ (granted' => granted)
             /\ stamp' \in {stamp, Stamp, NoStamp}
    BY <1>3, Stamps, SameTypes DEF Types, FileTypes, Times, NoStamp
  <1>4. CASE Daemon /\ ~Start
    <2>1. /\ file' = file /\ fallback' = fallback /\ panel' = panel /\ granted' = granted
          /\ stamp' \in {stamp, Stamp}
      BY <1>4 DEF Daemon, ReadStamp, FindConfig, ReadConfig, UseCable, Unconfigured, Connect,
         Join, ConfigureStatic, RequestLease, Lease, Monitor, Wait, Fails, Continues, Connected
    <2> QED
      BY <1>3, <2>1
  <1>5. CASE Associate \/ OldEnds \/ (\E i \in Interfaces : Bind(i) \/ Expire(i))
    BY <1>3, <1>5 DEF Associate, OldEnds, Bind, Expire
  <1>6. CASE Event \/ HelperDies
    BY <1>3, <1>6 DEF Event, HelperDies
  <1>7. CASE DaemonDies
    BY <1>3, <1>7 DEF DaemonDies
  <1>8. CASE UNCHANGED vars
    BY <1>3, <1>8 DEF vars
  <1> QED
    BY <1>1, <1>2, <1>4, <1>5, <1>6, <1>7, <1>8 DEF NetNext

LEMMA NextDaemon == Types /\ [NetNext]_vars => DaemonTypes'
  <1> SUFFICES ASSUME Types, [NetNext]_vars
               PROVE  DaemonTypes'
    OBVIOUS
  <1> USE DEF fileVars, daemonVars, radioVars, dhcpVars, airVars
  <1>0. Wired \in {Parse(t) : t \in Texts \cup {Empty}}
    BY DEF Wired
  <1>1. CASE UNCHANGED <<pc, cfg, announced>>
    BY <1>1 DEF Types, DaemonTypes
  <1>2. CASE \/ Truncate \/ Written \/ Associate \/ OldEnds
             \/ (\E i \in Interfaces : Bind(i) \/ Expire(i))
             \/ Event \/ HelperDies
    BY <1>1, <1>2 DEF Truncate, Written, Associate, OldEnds, Bind, Expire, Event, HelperDies
  <1>3. CASE Start \/ ReadStamp \/ Wait \/ Monitor
    BY <1>3 DEF Start, ReadStamp, Wait, Monitor, Continues, Types, DaemonTypes
  <1>4. CASE FindConfig \/ ReadConfig
    <2>1. ~Persistent /\ Usable => fallback \in Texts
      BY NetAssumption DEF Usable, Types, FileTypes
    <2> QED
      BY <1>4, <2>1 DEF FindConfig, ReadConfig, Types, DaemonTypes, FileTypes
  <1>5. CASE UseCable \/ Unconfigured \/ DaemonDies
    BY <1>0, <1>5 DEF UseCable, Unconfigured, Announce, DaemonDies, Types, DaemonTypes
  <1>6. CASE Connect \/ Join \/ ConfigureStatic \/ RequestLease \/ Lease
    BY <1>6 DEF Connect, Join, ConfigureStatic, RequestLease, Lease, Fails, Continues,
       Connected, Announce, Types, DaemonTypes
  <1>7. CASE UNCHANGED vars
    BY <1>1, <1>7 DEF vars
  <1> QED
    BY <1>2, <1>3, <1>4, <1>5, <1>6, <1>7 DEF NetNext, Daemon

LEMMA NextRadioTypes == Types /\ [NetNext]_vars => RadioTypes'
  <1> SUFFICES ASSUME Types, [NetNext]_vars
               PROVE  RadioTypes'
    OBVIOUS
  <1> USE DEF fileVars, daemonVars, radioVars, dhcpVars, airVars
  <1>1. CASE UNCHANGED <<supplicant, wpaPid, joined, old, outlived, cable, air>>
    BY <1>1 DEF Types, RadioTypes
  <1>2. CASE Truncate \/ Written \/ (\E i \in Interfaces : Bind(i) \/ Expire(i)) \/ DaemonDies
    BY <1>1, <1>2 DEF Truncate, Written, Bind, Expire, DaemonDies
  <1>3. CASE Daemon /\ ~Connect /\ ~Unconfigured
    BY <1>1, <1>3 DEF Daemon, Start, ReadStamp, FindConfig, ReadConfig, UseCable, Join,
       ConfigureStatic, RequestLease, Lease, Monitor, Wait
  <1>4. CASE Connect
    <2>1. Wireless(cfg) => cfg.ssid \in Ssids
      BY SameTypes, ConfigTypes
    <2> QED
      BY <1>4, <2>1 DEF Connect, StopSupplicant, Supplicant, Types, RadioTypes
  <1>5. CASE Unconfigured
    BY <1>5 DEF Unconfigured, StartScanner, Types, RadioTypes
  <1>6. CASE Associate
    BY <1>6 DEF Associate, Types, RadioTypes
  <1>7. CASE Event
    BY <1>7 DEF Event, Types, RadioTypes
  <1>8. CASE HelperDies \/ OldEnds
    BY <1>8 DEF HelperDies, OldEnds, Types, RadioTypes
  <1>9. CASE UNCHANGED vars
    BY <1>1, <1>9 DEF vars
  <1> QED
    BY <1>2, <1>3, <1>4, <1>5, <1>6, <1>7, <1>8, <1>9 DEF NetNext, Daemon

LEMMA NextDhcp == Types /\ [NetNext]_vars => DhcpTypes'
  <1> SUFFICES ASSUME Types, [NetNext]_vars
               PROVE  DhcpTypes'
    OBVIOUS
  <1> USE DEF fileVars, daemonVars, radioVars, dhcpVars, airVars
  <1>0. cfg.iface \in Interfaces
    BY SameTypes, ConfigTypes
  <1>1. CASE UNCHANGED <<client, addrs, lost>>
    BY <1>1 DEF Types, DhcpTypes
  <1>2. CASE Truncate \/ Written \/ Associate \/ OldEnds \/ Event \/ DaemonDies
    BY <1>1, <1>2 DEF Truncate, Written, Associate, OldEnds, Event, DaemonDies
  <1>3. CASE Daemon /\ ~ConfigureStatic /\ ~RequestLease
    BY <1>1, <1>3 DEF Daemon, Start, ReadStamp, FindConfig, ReadConfig, UseCable, Unconfigured,
       Connect, Join, Lease, Monitor, Wait
  <1>4. CASE ConfigureStatic
    <2>1. CASE addrs' = addrs
      BY <1>1, <1>4, <2>1 DEF ConfigureStatic
    <2>2. CASE addrs' = Added(cfg.iface, Static)
      <3>1. /\ DOMAIN addrs' = Interfaces
            /\ addrs'[cfg.iface] = With(addrs[cfg.iface], Static)
            /\ \A j \in Interfaces \ {cfg.iface} : addrs'[j] = addrs[j]
        BY <1>0, <2>2, AddedIs DEF Types, DhcpTypes
      <3>2. addrs'[cfg.iface] \in Held
        BY <1>0, <3>1, AddStatic DEF Types, DhcpTypes
      <3>3. addrs[cfg.iface] \in {<<>>, <<Static>>} => addrs'[cfg.iface] = <<Static>>
        BY <3>1, WithNone, WithOne
      <3> QED
        BY <1>0, <1>4, <3>1, <3>2, <3>3 DEF ConfigureStatic, Types, DhcpTypes
    <2> QED
      BY <1>4, <2>1, <2>2 DEF ConfigureStatic
  <1>5. CASE RequestLease
    BY <1>0, <1>5 DEF RequestLease, Client, Types, DhcpTypes, Held, Leased
  <1>6. ASSUME NEW i \in Interfaces, Bind(i)
        PROVE  DhcpTypes'
    <2>1. Network(i) \in Ssids \cup {Wire} /\ Network(i) \notin {"none", "seeking"}
      BY <1>6, SameTypes, NetworkTypes DEF Bind
    <2>2. /\ DOMAIN addrs' = Interfaces
          /\ addrs'[i] = With(addrs[i], Network(i))
          /\ \A j \in Interfaces \ {i} : addrs'[j] = addrs[j]
      BY <1>6, AddedIs DEF Bind, Types, DhcpTypes
    <2>3. addrs'[i] \in Held
      BY <1>6, <2>1, <2>2, AddLease DEF Bind, Types, DhcpTypes, Names
    <2> QED
      BY <1>6, <2>1, <2>2, <2>3 DEF Bind, Types, DhcpTypes
  <1>7. ASSUME NEW i \in Interfaces, Expire(i)
        PROVE  DhcpTypes'
    BY <1>7 DEF Expire, Types, DhcpTypes, Held, Leased
  <1>8. CASE HelperDies
    BY <1>8 DEF HelperDies, Types, DhcpTypes
  <1>9. CASE UNCHANGED vars
    BY <1>1, <1>9 DEF vars
  <1> QED
    BY <1>2, <1>3, <1>4, <1>5, <1>6, <1>7, <1>8, <1>9 DEF NetNext, Daemon

-----------------------------------------------------------------------------
(* Whose address it is.                                                     *)

LEMMA NextRadio == Types /\ RadioInv /\ [NetNext]_vars => RadioInv'
  <1> SUFFICES ASSUME Types, RadioInv, [NetNext]_vars
               PROVE  RadioInv'
    OBVIOUS
  <1> USE DEF fileVars, daemonVars, radioVars, dhcpVars, airVars
  <1>1. CASE UNCHANGED <<cfg, supplicant>>
             /\ (pc' \in {"joining", "address", "lease", "monitor"} =>
                   pc \in {"joining", "address", "lease", "monitor"} \/ ~Wireless(cfg))
    BY <1>1 DEF RadioInv, Wireless
  <1>2. CASE \/ Truncate \/ Written \/ Associate \/ OldEnds \/ Event
             \/ (\E i \in Interfaces : Bind(i) \/ Expire(i))
    BY <1>1, <1>2 DEF Truncate, Written, Associate, OldEnds, Event, Bind, Expire
  <1>3. CASE \/ Start \/ ReadStamp \/ FindConfig \/ ReadConfig \/ UseCable \/ Unconfigured
             \/ Wait \/ DaemonDies
    <2>1. pc' \notin {"joining", "address", "lease", "monitor"}
      BY <1>3 DEF Start, ReadStamp, FindConfig, ReadConfig, UseCable, Unconfigured, Wait,
         Continues, DaemonDies
    <2> QED
      BY <2>1 DEF RadioInv
  <1>4. CASE Connect
    BY <1>4 DEF Connect, Supplicant, Fails, Continues, RadioInv, Wireless
  <1>5. CASE Join \/ ConfigureStatic \/ RequestLease \/ Lease \/ Monitor
    BY <1>1, <1>5 DEF Join, ConfigureStatic, RequestLease, Lease, Monitor, Fails, Continues,
       Connected
  <1>6. CASE HelperDies
    BY <1>6 DEF HelperDies, RadioInv, Wireless
  <1>7. CASE UNCHANGED vars
    BY <1>1, <1>7 DEF vars
  <1> QED
    BY <1>2, <1>3, <1>4, <1>5, <1>6, <1>7 DEF NetNext, Daemon

LEMMA NextLease == Types /\ RadioInv /\ LeaseInv /\ [NetNext]_vars => LeaseInv'
  <1> SUFFICES ASSUME Types, RadioInv, LeaseInv, [NetNext]_vars
               PROVE  LeaseInv'
    OBVIOUS
  <1> USE DEF fileVars, daemonVars, radioVars, dhcpVars, airVars
  <1>1. CASE UNCHANGED <<cfg, addrs, outlived>>
             /\ (pc' \in {"lease", "monitor"} => pc \in {"lease", "monitor"})
    BY <1>1 DEF LeaseInv, Wireless
  <1>2. CASE Truncate \/ Written \/ Associate \/ OldEnds \/ Event \/ HelperDies
    BY <1>1, <1>2 DEF Truncate, Written, Associate, OldEnds, Event, HelperDies
  <1>3. CASE \/ Start \/ ReadStamp \/ FindConfig \/ ReadConfig \/ UseCable \/ Unconfigured
             \/ Connect \/ Join \/ Wait \/ DaemonDies
    <2>1. pc' \notin {"lease", "monitor"}
      BY <1>3 DEF Start, ReadStamp, FindConfig, ReadConfig, UseCable, Unconfigured, Connect,
         Join, Wait, Fails, Continues, DaemonDies
    <2> QED
      BY <2>1 DEF LeaseInv
  <1>4. CASE ConfigureStatic
    BY <1>4 DEF ConfigureStatic, Connected, Fails, LeaseInv
  <1>5. CASE RequestLease
    <2>1. Wireless(cfg) => cfg.iface = Radio
      BY SameTypes, ConfigTypes
    <2>2. (cfg' = cfg /\ (Wireless(cfg) => addrs'[Radio] = <<>>)) \/ pc' = "waiting"
      BY <1>5, <2>1 DEF RequestLease, Continues, Fails, Types, DhcpTypes, Interfaces
    <2> QED
      BY <2>2 DEF LeaseInv, Wireless
  <1>6. CASE Lease \/ Monitor
    BY <1>1, <1>6 DEF Lease, Monitor, Fails, Continues, Connected
  <1>7. ASSUME NEW i \in Interfaces, Bind(i)
        PROVE  LeaseInv'
    <2>1. /\ addrs'[i] = With(addrs[i], Network(i))
          /\ \A j \in Interfaces \ {i} : addrs'[j] = addrs[j]
          /\ pc' = pc /\ cfg' = cfg /\ outlived' = outlived
      BY <1>7, AddedIs DEF Bind, Types, DhcpTypes
    <2>2. CASE i = Radio
      <3> SUFFICES ASSUME pc \in {"lease", "monitor"}, Wireless(cfg), cfg.address = "dhcp",
                          ~outlived
                   PROVE  addrs'[Radio] \in {<<>>, <<cfg.ssid>>}
        BY <2>1 DEF LeaseInv, Wireless
      <3>1. Network(Radio) = cfg.ssid
        BY <1>7, <2>2 DEF Bind, Carrier, Network, RadioInv, Types, RadioTypes
      <3>2. addrs[Radio] \in {<<>>, <<cfg.ssid>>}
        BY DEF LeaseInv
      <3> QED
        BY <2>1, <2>2, <3>1, <3>2, WithNone, WithOne
    <2>3. CASE i # Radio
      BY <2>1, <2>3 DEF LeaseInv, Wireless, Interfaces
    <2> QED
      BY <2>2, <2>3
  <1>8. ASSUME NEW i \in Interfaces, Expire(i)
        PROVE  LeaseInv'
    BY <1>8 DEF Expire, LeaseInv, Wireless, Types, DhcpTypes, Interfaces
  <1>9. CASE UNCHANGED vars
    BY <1>1, <1>9 DEF vars
  <1> QED
    BY <1>2, <1>3, <1>4, <1>5, <1>6, <1>7, <1>8, <1>9 DEF NetNext, Daemon

\* The address the daemon finds is the one that may be there.
LEMMA NextShown ==
    Types /\ LeaseInv /\ ConnectInv /\ LeaseIsFromConfigured /\ [NetNext]_vars
        => LeaseIsFromConfigured'
  <1> SUFFICES ASSUME Types, LeaseInv, ConnectInv, LeaseIsFromConfigured, [NetNext]_vars
               PROVE  LeaseIsFromConfigured'
    OBVIOUS
  <1> USE DEF fileVars, daemonVars, radioVars, dhcpVars, airVars, HasAddress, FirstAddress
  <1>0. Wireless(cfg) => cfg.iface = Radio
    BY SameTypes, ConfigTypes
  <1>1. CASE UNCHANGED <<status, outlived>>
    BY <1>1 DEF LeaseIsFromConfigured
  <1>2. CASE status'.state # "connected"
    BY <1>2 DEF LeaseIsFromConfigured
  <1>3. CASE \/ Truncate \/ Written \/ Associate \/ OldEnds \/ Event \/ HelperDies
             \/ DaemonDies \/ (\E i \in Interfaces : Bind(i) \/ Expire(i))
             \/ Start \/ ReadStamp \/ Wait
    BY <1>1, <1>3 DEF Truncate, Written, Associate, OldEnds, Event, HelperDies, DaemonDies, Bind,
       Expire, Start, ReadStamp, Wait, Continues
  <1>4. CASE FindConfig \/ ReadConfig \/ UseCable \/ Unconfigured \/ Join \/ RequestLease
    <2>1. outlived' = outlived
      BY <1>4 DEF FindConfig, ReadConfig, UseCable, Unconfigured, StartScanner, Join, RequestLease
    <2>2. status' = status \/ status'.state # "connected"
      <3>1. CASE Join \/ RequestLease
        BY <3>1 DEF Join, RequestLease, Client, Fails, Continues, Shows
      <3>2. CASE FindConfig \/ ReadConfig
        BY <3>2 DEF FindConfig, ReadConfig, Shows
      <3>3. CASE UseCable \/ Unconfigured
        BY <3>3 DEF UseCable, Unconfigured, Shows
      <3> QED
        BY <1>4, <3>1, <3>2, <3>3
    <2> QED
      BY <1>1, <1>2, <2>1, <2>2
  <1>5. CASE Connect
    <2>1. status.state # "connected"
      BY <1>5 DEF Connect, ConnectInv
    <2>2. status' = status \/ Shows("failed", cfg, NoNetwork)
      BY <1>5 DEF Connect, Fails, Continues
    <2>3. status'.state # "connected"
      BY <2>1, <2>2 DEF Shows
    <2> QED
      BY <1>2, <2>3
  <1>6. CASE ConfigureStatic
    <2>1. status'.state # "connected" \/ status'.address # "dhcp"
      BY <1>6 DEF ConfigureStatic, Fails, Connected, Shows
    <2> QED
      BY <2>1 DEF LeaseIsFromConfigured
  <1>7. CASE Lease \/ Monitor
    <2>1. CASE Shows("connected", cfg, Head(addrs[cfg.iface])) /\ addrs[cfg.iface] # <<>>
               /\ pc \in {"lease", "monitor"}
      <3>1. /\ status'.ssid = cfg.ssid /\ status'.address = cfg.address
            /\ status'.ip = Head(addrs[cfg.iface])
        BY <2>1 DEF Shows
      <3>2. outlived' = outlived
        BY <1>7 DEF Lease, Monitor
      <3>3. Wireless(cfg) /\ cfg.address = "dhcp" =>
                addrs[cfg.iface] = <<cfg.ssid>> \/ outlived'
        BY <1>0, <2>1, <3>2 DEF LeaseInv
      <3>4. Head(<<cfg.ssid>>) = cfg.ssid
        OBVIOUS
      <3> QED
        BY <3>1, <3>2, <3>3, <3>4 DEF LeaseIsFromConfigured, Wireless
    <2>2. CASE Shows("failed", cfg, NoNetwork)
      BY <1>2, <2>2 DEF Shows
    <2> QED
      BY <1>1, <1>7, <2>1, <2>2 DEF Lease, Monitor, Fails, Continues, Connected
  <1>8. CASE UNCHANGED vars
    BY <1>1, <1>8 DEF vars
  <1> QED
    BY <1>3, <1>4, <1>5, <1>6, <1>7, <1>8 DEF NetNext, Daemon

LEMMA NextConnect == ConnectInv /\ [NetNext]_vars => ConnectInv'
  <1> SUFFICES ASSUME ConnectInv, [NetNext]_vars
               PROVE  ConnectInv'
    OBVIOUS
  <1> USE DEF fileVars, daemonVars, radioVars, dhcpVars, airVars
  <1>1. CASE UNCHANGED <<pc, status>>
    BY <1>1 DEF ConnectInv
  <1>2. CASE \/ Truncate \/ Written \/ Associate \/ OldEnds \/ Event \/ HelperDies
             \/ (\E i \in Interfaces : Bind(i) \/ Expire(i))
    BY <1>1, <1>2 DEF Truncate, Written, Associate, OldEnds, Event, HelperDies, Bind, Expire
  <1>3. CASE FindConfig \/ ReadConfig \/ UseCable
    BY <1>3 DEF FindConfig, ReadConfig, UseCable, Shows, ConnectInv
  <1>4. CASE \/ Start \/ ReadStamp \/ Unconfigured \/ Connect \/ Join \/ ConfigureStatic
             \/ RequestLease \/ Lease \/ Wait \/ DaemonDies
    <2>1. pc' # "connect"
      BY <1>4 DEF Start, ReadStamp, Unconfigured, Connect, Join, ConfigureStatic, RequestLease,
         Lease, Wait, DaemonDies, Fails, Continues, Connected
    <2> QED
      BY <2>1 DEF ConnectInv
  <1>5. CASE Monitor
    BY <1>5 DEF Monitor, Continues, ConnectInv
  <1>6. CASE UNCHANGED vars
    BY <1>1, <1>6 DEF vars
  <1> QED
    BY <1>2, <1>3, <1>4, <1>5, <1>6 DEF NetNext, Daemon

LEMMA InitNet == NetInit => NetInv
  <1> SUFFICES ASSUME NetInit
               PROVE  NetInv
    OBVIOUS
  <1>1. FileTypes
    BY NetAssumption DEF NetInit, FileTypes, Times, NoStamp, Idle
  <1>2. DaemonTypes
    BY DEF NetInit, DaemonTypes, Wired
  <1>3. RadioTypes
    BY DEF NetInit, RadioTypes
  <1>4. DhcpTypes
    BY DEF NetInit, DhcpTypes, Held, Leased
  <1>5. RadioInv /\ LeaseInv /\ ConnectInv /\ LeaseIsFromConfigured
    BY DEF NetInit, RadioInv, LeaseInv, ConnectInv, LeaseIsFromConfigured
  <1> QED
    BY <1>1, <1>2, <1>3, <1>4, <1>5, SameTypes DEF Types, NetInv

LEMMA NetInvariant == NetSpec => []NetInv
  <1>1. NetInv /\ [NetNext]_vars => NetInv'
    <2> SUFFICES ASSUME NetInv, [NetNext]_vars
                 PROVE  NetInv'
      OBVIOUS
    <2>1. Types
      BY SameTypes DEF NetInv
    <2>2. Types'
      BY <2>1, NextFile, NextDaemon, NextRadioTypes, NextDhcp DEF Types
    <2>3. (NetTypeOK /\ Times /\ HelperInv)'
      BY <2>2, SameTypes, PTL
    <2> QED
      BY <2>1, <2>3, NextRadio, NextLease, NextConnect, NextShown DEF NetInv
  <1> QED
    BY <1>1, InitNet, PTL DEF NetSpec

\* The daemon's variables, the file and the helpers' keep their types, and no
\* interface collects addresses, whatever fails or is rewritten.
THEOREM NetTypeCorrect == NetSpec => []NetTypeOK
  <1>1. NetInv => NetTypeOK
    BY DEF NetInv
  <1> QED
    BY <1>1, NetInvariant, PTL

\* A wireless network is never shown connected with an address leased by another,
\* for any networks, edits at any moment, and helpers and daemons that die.
THEOREM LeasesAreConfigured == NetSpec => []LeaseIsFromConfigured
  <1>1. NetInv => LeaseIsFromConfigured
    BY DEF NetInv
  <1> QED
    BY <1>1, NetInvariant, PTL

=============================================================================
