--------------------------- MODULE MCEnumeration ---------------------------
(***************************************************************************)
(* Two entries of each bus that may be devices, and one that is a part.    *)
(***************************************************************************)
EXTENDS EnumerationProperties, TLC

CONSTANTS e1, e2, e3, t1, t2, s1, s2, s3, m1, m2

Thing(values, id) == [values |-> values, id |-> id]

(* Two models of one vendor, and a device whose id is not hexadecimal; a   *)
(* card without a serial; a monitor without an EDID; supplies that feed    *)
(* the machine and others that do not.                                     *)
Things(b) ==
  CASE b = "usb" -> {Thing(<<"v1", "p1", "name">>, <<"v1", "p1">>),
                     Thing(<<"v1", "p2", None>>, <<"v1", "p2">>),
                     Thing(<<"v1", "zz", None>>, None)}
    [] b = "usb.bsd" -> {Thing(<< <<"v1", "p1">> >>, <<"v1", "p1">>), Thing(<<None>>, None)}
    [] b = "thunderbolt" -> {Thing(<<t1, "name">>, t1), Thing(<<t2, None>>, t2),
                             Thing(<<"empty", None>>, None)}
    [] b = "sdcard" -> {Thing(<<"SD", s1, "name">>, s1), Thing(<<"empty", s2, None>>, s2),
                        Thing(<<None, s3, None>>, None), Thing(<<"SDIO", "empty", None>>, None)}
    [] b = "sdcard.bsd" -> {Thing(<<s1>>, s1), Thing(<<s2>>, s2)}
    [] b = "pci" -> {Thing(<<>>, None)}
    [] b = "display" -> {Thing(<<"connected", m1>>, m1), Thing(<<"connected", m2>>, m2),
                         Thing(<<"connected", None>>, None), Thing(<<"disconnected", None>>, None)}
    [] b \in LinkBuses -> {Thing(<<"up">>, "Up"), Thing(<<"down">>, "Down"),
                           Thing(<<"dormant">>, "Unknown")}
    [] b = "power" -> {Thing(<<"Mains", "online">>, "feeds"), Thing(<<"Mains", "offline">>, None),
                       Thing(<<"Battery", "charging">>, "feeds"),
                       Thing(<<"Battery", "discharging">>, None), Thing(<<"UPS", None>>, None)}
    [] b = "lock" -> {Thing(<<"graphical", "locked">>, "locked"),
                      Thing(<<"graphical", "unlocked">>, "unlocked"), Thing(<<"tty", None>>, None)}

(* An interface has no vendor, FreeBSD, the power class and logind list no *)
(* parts, and what another part shows is not asked for.                    *)
Contents(b, e) ==
  CASE e \notin Part -> Things(b)
    [] b = "usb"     -> {Thing(<<None, None, None>>, None)}
    [] b \in {"usb.bsd", "network.bsd", "power", "lock"} -> {}
    [] OTHER         -> {[t EXCEPT !.id = None] : t \in Things(b)}

UsbIds     == {"v1"} \X {"p1", "p2"}
OwnName    == [e \in Entry |-> e]
SharedName == [e \in Entry |-> e1]

(* The two entries have the same contents, and no definition tells them    *)
(* apart.                                                                  *)
Twins == Permutations({e1, e2})

============================================================================
