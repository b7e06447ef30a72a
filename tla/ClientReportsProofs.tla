------------------------ MODULE ClientReportsProofs ------------------------
(***************************************************************************)
(* Theorems about ClientReports for any clients and reports: types, that   *)
(* reports are stored whole and for who sent them, that what is known stays   *)
(* known, which images masters refresh, and what the inventory shows.      *)
(***************************************************************************)
EXTENDS ClientReports, TLAPS, FiniteSetTheorems, WellFoundedInduction

-----------------------------------------------------------------------------
\* Lemmas about rows.

LEMMA HardwareOfType ==
    ASSUME TypeOK, NEW c
    PROVE  /\ HardwareOf(c) \in HardwareRow
           /\ c \in DOMAIN hardware => HardwareOf(c) = hardware[c]
  BY DEF TypeOK, PartialFn, HardwareOf, HardwareRow

LEMMA ReportedHardwareType ==
    ASSUME TypeOK, NEW c, NEW x \in Linux \cup Fresh, NEW tpm \in BOOLEAN
    PROVE  /\ ReportedHardware(c, x, tpm) \in HardwareRow
           /\ ReportedHardware(c, x, tpm).tx = x
           /\ HardwareOf(c).tpm => ReportedHardware(c, x, tpm).tpm
  BY HardwareOfType DEF ReportedHardware, HardwareRow

LEMMA FormHardwareType ==
    ASSUME TypeOK, NEW c
    PROVE  /\ [HardwareOf(c) EXCEPT !.tx = None] \in HardwareRow
           /\ [HardwareOf(c) EXCEPT !.tx = None].tx = None
           /\ [HardwareOf(c) EXCEPT !.tx = None].tpm = HardwareOf(c).tpm
  BY HardwareOfType DEF HardwareRow

LEMMA FormOSType ==
    ASSUME TypeOK, NEW c
    PROVE  /\ [OSOf(c) EXCEPT !.tx = None] \in OSRow
           /\ [OSOf(c) EXCEPT !.tx = None].tx = None
  BY DEF TypeOK, PartialFn, OSOf, OSRow

LEMMA ReportedFirmwareType ==
    ASSUME TypeOK, NEW c \in Named, NEW x \in Linux \cup Fresh, NEW bios \in BOOLEAN
    PROVE  /\ ReportedFirmware(c, x, bios) \in FirmwareRow
           /\ c # None \/ x \notin DOMAIN firmware => ReportedFirmware(c, x, bios).client = c
           /\ x \in DOMAIN firmware /\ firmware[x].bios => ReportedFirmware(c, x, bios).bios
  <1>1. CASE x \in DOMAIN firmware
    <2>1. firmware[x] \in FirmwareRow
      BY <1>1 DEF TypeOK, PartialFn
    <2>2. ReportedFirmware(c, x, bios) =
             [client |-> Coalesce(c, firmware[x].client), bios |-> firmware[x].bios \/ bios]
      BY <1>1 DEF ReportedFirmware
    <2>3. Coalesce(c, firmware[x].client) \in Named /\ firmware[x].bios \in BOOLEAN
      BY <2>1 DEF FirmwareRow, Coalesce
    <2>4. c # None => Coalesce(c, firmware[x].client) = c
      BY DEF Coalesce
    <2>5. QED
      BY <1>1, <2>2, <2>3, <2>4 DEF FirmwareRow
  <1>2. CASE x \notin DOMAIN firmware
    BY <1>2 DEF ReportedFirmware, FirmwareRow
  <1>3. QED
    BY <1>1, <1>2

-----------------------------------------------------------------------------
\* What a step does to the rows of reports.

\* g is f but for a row of c that x wrote; g is f but for what x stores for c.
RowBy(f, g, c, x) == \A d \in DOMAIN g : \/ d \in DOMAIN f /\ g[d] = f[d]
                                         \/ d = c /\ g[d].tx = x
TxBy(f, g, x, c)  == \A y \in DOMAIN g : \/ y \in DOMAIN f /\ g[y] = f[y]
                                         \/ y = x /\ g[y] = c

Stores(x, c) == /\ RowBy(hardware, hardware', c, x) /\ RowBy(osInfo, osInfo', c, x)
                /\ TxBy(disk, disk', x, c) /\ TxBy(memory, memory', x, c)
                /\ TxBy(battery, battery', x, c)

FirmwareBy(x, c) == \A y \in DOMAIN firmware' :
                       \/ y \in DOMAIN firmware /\ firmware'[y] = firmware[y]
                       \/ y = x /\ firmware'[y].client = c

LEMMA StoresReporters ==
    ASSUME NEW x, NEW c, Stores(x, c), NEW y
    PROVE  Reporters(y)' \subseteq Reporters(y) \cup (IF y = x THEN {c} ELSE {})
  <1> SUFFICES ASSUME NEW d \in Reporters(y)'
               PROVE  d \in Reporters(y) \/ (y = x /\ d = c)
    OBVIOUS
  <1>1. CASE d \in DOMAIN hardware' /\ hardware'[d].tx = y
    <2>1. \/ d \in DOMAIN hardware /\ hardware'[d] = hardware[d]
          \/ d = c /\ hardware'[d].tx = x
      BY <1>1 DEF Stores, RowBy
    <2>2. QED
      BY <1>1, <2>1 DEF Reporters
  <1>2. CASE d \in DOMAIN osInfo' /\ osInfo'[d].tx = y
    <2>1. \/ d \in DOMAIN osInfo /\ osInfo'[d] = osInfo[d]
          \/ d = c /\ osInfo'[d].tx = x
      BY <1>2 DEF Stores, RowBy
    <2>2. QED
      BY <1>2, <2>1 DEF Reporters
  <1>3. CASE y \in DOMAIN disk' /\ d = disk'[y]
    BY <1>3 DEF Stores, TxBy, Reporters
  <1>4. CASE y \in DOMAIN memory' /\ d = memory'[y]
    BY <1>4 DEF Stores, TxBy, Reporters
  <1>5. CASE y \in DOMAIN battery' /\ d = battery'[y]
    BY <1>5 DEF Stores, TxBy, Reporters
  <1>6. QED
    BY <1>1, <1>2, <1>3, <1>4, <1>5 DEF Reporters

\* A report of a Linux client.
LEMMA LinuxReportOwned ==
    ASSUME ReportIInv, NEW x \in Linux, NEW c, Given(x, c), Stores(x, c), FirmwareBy(x, c),
           UNCHANGED <<used, agreed>>
    PROVE  LinuxOwned' /\ FreshUnused' /\ FreshOwned'
  <1>1. \A y \in Fresh : y # x
    BY TxAssumption
  <1>2. \A y : Reporters(y)' \subseteq Reporters(y) \cup (IF y = x THEN {c} ELSE {})
    BY StoresReporters
  <1>3. LinuxOwned'
    BY <1>2 DEF ReportIInv, LinuxOwned, FirmwareBy, Given
  <1>4. FreshUnused'
    BY <1>1, <1>2 DEF ReportIInv, FreshUnused, FirmwareBy
  <1>5. FreshOwned'
    BY <1>1, <1>2 DEF ReportIInv, FreshOwned, FirmwareBy
  <1>6. QED
    BY <1>3, <1>4, <1>5

\* A report of a Windows client with tag t and serial number s.
LEMMA WindowsReportOwned ==
    ASSUME ReportIInv, NEW x \in Fresh \ used, NEW s, NEW t, Stores(x, s), FirmwareBy(x, t),
           used' = used \cup {x}, agreed' = IF t = s THEN agreed \cup {x} ELSE agreed
    PROVE  LinuxOwned' /\ FreshUnused' /\ FreshOwned'
  <1>1. x \notin Linux
    BY TxAssumption
  <1>2. \A y : Reporters(y)' \subseteq Reporters(y) \cup (IF y = x THEN {s} ELSE {})
    BY StoresReporters
  <1>3. LinuxOwned'
    BY <1>1, <1>2 DEF ReportIInv, LinuxOwned, FirmwareBy, Given
  <1>4. FreshUnused'
    BY <1>2 DEF ReportIInv, FreshUnused, FirmwareBy
  <1>5. FreshOwned'
    <2>1. Reporters(x) = {} /\ x \notin DOMAIN firmware /\ x \notin agreed
      BY DEF ReportIInv, FreshUnused, TypeOK
    <2>2. ASSUME NEW y \in Fresh \cap DOMAIN firmware', y # x
          PROVE  /\ \A a, b \in Reporters(y)' : a = b
                 /\ y \in agreed' => Reporters(y)' \subseteq {firmware'[y].client}
      BY <1>2, <2>2 DEF ReportIInv, FreshOwned, FirmwareBy
    <2>3. ASSUME x \in DOMAIN firmware'
          PROVE  /\ \A a, b \in Reporters(x)' : a = b
                 /\ x \in agreed' => Reporters(x)' \subseteq {firmware'[x].client}
      BY <1>2, <2>1, <2>3 DEF FirmwareBy
    <2>4. QED
      BY <2>2, <2>3 DEF FreshOwned
  <1>6. QED
    BY <1>3, <1>4, <1>5

\* A step that stores no report, except under no transaction.
LEMMA OtherOwned ==
    ASSUME ReportIInv, NEW c, Stores(None, c), UNCHANGED <<firmware, used, agreed>>
    PROVE  LinuxOwned' /\ FreshUnused' /\ FreshOwned'
  <1>1. None \notin Linux \cup Fresh
    BY TxAssumption
  <1>2. \A y : y # None => Reporters(y)' \subseteq Reporters(y)
    BY StoresReporters
  <1>3. LinuxOwned'
    BY <1>1, <1>2 DEF ReportIInv, LinuxOwned, Given
  <1>4. FreshUnused' /\ FreshOwned'
    BY <1>1, <1>2 DEF ReportIInv, FreshUnused, FreshOwned
  <1>5. QED
    BY <1>3, <1>4

\* Rows name stored transactions as long as the one they are written by is stored.
LEMMA StoresWhole ==
    ASSUME ReportsWhole, NEW x, NEW c, Stores(x, c), DOMAIN firmware \subseteq DOMAIN firmware',
           x \in DOMAIN firmware' \cup {None},
           DOMAIN disk' \cup DOMAIN memory' \cup DOMAIN battery' \subseteq DOMAIN firmware',
           DOMAIN disk' \cap Linux = DOMAIN memory' \cap Linux,
           DOMAIN battery' \cap Linux \subseteq DOMAIN disk'
    PROVE  ReportsWhole'
  <1>1. \A d \in DOMAIN hardware' : hardware'[d].tx \in DOMAIN firmware' \cup {None}
    BY DEF ReportsWhole, Stores, RowBy
  <1>2. \A d \in DOMAIN osInfo' : osInfo'[d].tx \in DOMAIN firmware' \cup {None}
    BY DEF ReportsWhole, Stores, RowBy
  <1>3. QED
    BY <1>1, <1>2 DEF ReportsWhole, Linux

-----------------------------------------------------------------------------
\* Types, by halves: no handler but one writes both the reports and the jobs.

ReportTypes ==
    /\ PartialFn(hardware, Clients, HardwareRow)
    /\ PartialFn(osInfo, Clients, OSRow)
    /\ PartialFn(checked, Clients, BOOLEAN)
    /\ PartialFn(firmware, Linux \cup Fresh, FirmwareRow)
    /\ PartialFn(disk, Linux \cup Fresh, Clients)
    /\ PartialFn(memory, Linux \cup Fresh, Clients)
    /\ PartialFn(battery, Linux \cup Fresh, Clients)
    /\ used \subseteq Fresh /\ agreed \subseteq used

JobTypes ==
    /\ PartialFn(jobs, {r.job : r \in JobReports}, JobRow)
    /\ refreshed \subseteq {r.image : r \in JobReports} \ {None}
    /\ clock \in Nat
    /\ heard \subseteq JobReports

LEMMA TypeHalves == /\ TypeOK => ReportTypes /\ JobTypes
                    /\ ReportTypes' /\ JobTypes' => TypeOK'
  BY DEF TypeOK, ReportTypes, JobTypes

LEMMA JobsUnchanged ==
    ASSUME JobTypes, UNCHANGED <<job, clock>>
    PROVE  JobTypes'
  BY DEF JobTypes, job, PartialFn

-----------------------------------------------------------------------------
\* ReportIInv is inductive.

LEMMA CheckType ==
    ASSUME NEW r \in Checks, LockClientRow(r.tag)
    PROVE  /\ r.tag \in Clients /\ r.tx \in Linux /\ r.tpm \in BOOLEAN /\ r.bios \in BOOLEAN
           /\ r.tag # None /\ r.tag \in Named /\ Given(r.tx, r.tag)
  BY ReportAssumption, ClientAssumption DEF HealthCheck, LockClientRow, Linux, Named, Given

LEMMA HardwareType ==
    ASSUME NEW r \in HardwareReports, LockClientRow(r.serial)
    PROVE  /\ r.serial \in Clients /\ r.tx \in Linux /\ r.tpm \in BOOLEAN
           /\ r.bios \in BOOLEAN /\ r.battery \in BOOLEAN
           /\ r.serial # None /\ r.serial \in Named /\ Given(r.tx, r.serial)
  BY ReportAssumption, ClientAssumption DEF Hardware, LockClientRow, Linux, Named, Given

\* A new row of hardware_data, and of the firmware's history.
LEMMA HardwareStored ==
    ASSUME TypeOK, NEW c \in Clients, NEW x, NEW h \in HardwareRow, h.tx = x,
           hardware' = With(hardware, c, h)
    PROVE  PartialFn(hardware', Clients, HardwareRow) /\ RowBy(hardware, hardware', c, x)
  BY DEF TypeOK, PartialFn, With, RowBy

LEMMA FirmwareStored ==
    ASSUME TypeOK, NEW x \in Linux \cup Fresh, NEW c, NEW f \in FirmwareRow,
           f.client = c, firmware' = With(firmware, x, f)
    PROVE  /\ PartialFn(firmware', Linux \cup Fresh, FirmwareRow) /\ FirmwareBy(x, c)
           /\ DOMAIN firmware' = DOMAIN firmware \cup {x}
  BY DEF TypeOK, PartialFn, With, FirmwareBy

\* A new row of a history, if there is one.
LEMMA HistoryStored ==
    ASSUME NEW f, PartialFn(f, Linux \cup Fresh, Clients), NEW x \in Linux \cup Fresh,
           NEW c \in Clients, NEW b \in BOOLEAN
    PROVE  /\ PartialFn(WithIf(b, f, x, c), Linux \cup Fresh, Clients)
           /\ TxBy(f, WithIf(b, f, x, c), x, c)
           /\ DOMAIN f \subseteq DOMAIN WithIf(b, f, x, c)
           /\ DOMAIN WithIf(b, f, x, c) \subseteq DOMAIN f \cup {x}
           /\ b => DOMAIN WithIf(b, f, x, c) = DOMAIN f \cup {x}
  <1> DEFINE g == WithIf(b, f, x, c)
  <1>1. CASE b
    <2>1. g = With(f, x, c)
      BY <1>1 DEF WithIf
    <2>2. QED
      BY <1>1, <2>1 DEF PartialFn, With, TxBy
  <1>2. CASE ~b
    <2>1. g = f
      BY <1>2 DEF WithIf
    <2>2. QED
      BY <1>2, <2>1 DEF PartialFn, TxBy
  <1>3. QED
    BY <1>1, <1>2

LEMMA SameRows == \A f, c, x : RowBy(f, f, c, x) /\ TxBy(f, f, x, c)
  BY DEF RowBy, TxBy

LEMMA UpdateClientHealthCheckStep ==
    ASSUME ReportIInv, NEW r \in Checks, UpdateClientHealthCheck(r)
    PROVE  ReportIInv'
  <1> DEFINE h == ReportedHardware(r.tag, r.tx, r.tpm)
             f == ReportedFirmware(r.tag, r.tx, r.bios)
  <1>1. /\ r.tag \in Clients /\ r.tx \in Linux /\ r.tpm \in BOOLEAN /\ r.bios \in BOOLEAN
        /\ r.tag # None /\ r.tag \in Named /\ Given(r.tx, r.tag)
    BY CheckType DEF UpdateClientHealthCheck
  <1>2. /\ checked' = With(checked, r.tag, TRUE)
        /\ hardware' = With(hardware, r.tag, h) /\ firmware' = With(firmware, r.tx, f)
        /\ UNCHANGED <<osInfo, disk, memory, battery, used, agreed, job, clock>>
    BY DEF UpdateClientHealthCheck
  <1>3. h \in HardwareRow /\ h.tx = r.tx /\ f \in FirmwareRow /\ f.client = r.tag
    BY <1>1, ReportedHardwareType, ReportedFirmwareType DEF ReportIInv
  <1> HIDE DEF h, f
  <1>4. PartialFn(hardware', Clients, HardwareRow) /\ RowBy(hardware, hardware', r.tag, r.tx)
    BY <1>1, <1>2, <1>3, HardwareStored DEF ReportIInv
  <1>5. /\ PartialFn(firmware', Linux \cup Fresh, FirmwareRow) /\ FirmwareBy(r.tx, r.tag)
        /\ DOMAIN firmware' = DOMAIN firmware \cup {r.tx}
    BY <1>1, <1>2, <1>3, FirmwareStored DEF ReportIInv
  <1>6. PartialFn(checked', Clients, BOOLEAN)
    BY <1>1, <1>2 DEF ReportIInv, TypeOK, PartialFn, With
  <1>7. Stores(r.tx, r.tag)
    BY <1>2, <1>4, SameRows DEF Stores
  <1>8. TypeOK'
    <2>1. ReportTypes /\ JobTypes
      BY TypeHalves DEF ReportIInv
    <2>2. ReportTypes'
      BY <1>2, <1>4, <1>5, <1>6, <2>1 DEF ReportTypes, PartialFn
    <2>3. QED
      BY <1>2, <2>1, <2>2, JobsUnchanged, TypeHalves
  <1>9. ReportsWhole'
    <2>1. ReportsWhole
      BY DEF ReportIInv
    <2>2. /\ DOMAIN disk' \cup DOMAIN memory' \cup DOMAIN battery' \subseteq DOMAIN firmware'
          /\ DOMAIN disk' \cap Linux = DOMAIN memory' \cap Linux
          /\ DOMAIN battery' \cap Linux \subseteq DOMAIN disk'
      BY <1>2, <1>5, <2>1 DEF ReportsWhole
    <2>3. QED
      BY <1>5, <1>7, <2>1, <2>2, StoresWhole
  <1>10. QED
    BY <1>1, <1>2, <1>5, <1>7, <1>8, <1>9, LinuxReportOwned DEF ReportIInv

LEMMA SetClientHardwareDataStep ==
    ASSUME ReportIInv, NEW r \in HardwareReports, SetClientHardwareData(r)
    PROVE  ReportIInv'
  <1> DEFINE h == ReportedHardware(r.serial, r.tx, r.tpm)
             f == ReportedFirmware(r.serial, r.tx, r.bios)
  <1>1. /\ r.serial \in Clients /\ r.tx \in Linux /\ r.tpm \in BOOLEAN
        /\ r.bios \in BOOLEAN /\ r.battery \in BOOLEAN
        /\ r.serial # None /\ r.serial \in Named /\ Given(r.tx, r.serial)
    BY HardwareType DEF SetClientHardwareData
  <1>2. /\ hardware' = With(hardware, r.serial, h) /\ firmware' = With(firmware, r.tx, f)
        /\ UNCHANGED <<osInfo, checked, used, agreed, job, clock>>
    BY DEF SetClientHardwareData
  <1>3. /\ disk' = WithIf(TRUE, disk, r.tx, r.serial)
        /\ memory' = WithIf(TRUE, memory, r.tx, r.serial)
        /\ battery' = WithIf(r.battery, battery, r.tx, r.serial)
    BY DEF SetClientHardwareData, LinuxHistories, WithIf
  <1>4. h \in HardwareRow /\ h.tx = r.tx /\ f \in FirmwareRow /\ f.client = r.serial
    <2>1. h \in HardwareRow /\ h.tx = r.tx
      BY <1>1, ReportedHardwareType DEF ReportIInv
    <2>2. f \in FirmwareRow /\ f.client = r.serial
      BY <1>1, ReportedFirmwareType DEF ReportIInv
    <2>3. QED
      BY <2>1, <2>2
  <1> HIDE DEF h, f
  <1>5. PartialFn(hardware', Clients, HardwareRow) /\ RowBy(hardware, hardware', r.serial, r.tx)
    BY <1>1, <1>2, <1>4, HardwareStored DEF ReportIInv
  <1>6. /\ PartialFn(firmware', Linux \cup Fresh, FirmwareRow) /\ FirmwareBy(r.tx, r.serial)
        /\ DOMAIN firmware' = DOMAIN firmware \cup {r.tx}
    BY <1>1, <1>2, <1>4, FirmwareStored DEF ReportIInv
  <1>7. ReportTypes /\ JobTypes
    BY TypeHalves DEF ReportIInv
  <1>8. /\ PartialFn(disk', Linux \cup Fresh, Clients) /\ TxBy(disk, disk', r.tx, r.serial)
        /\ DOMAIN disk' = DOMAIN disk \cup {r.tx}
    BY <1>1, <1>3, <1>7, HistoryStored DEF ReportTypes
  <1>9. /\ PartialFn(memory', Linux \cup Fresh, Clients)
        /\ TxBy(memory, memory', r.tx, r.serial)
        /\ DOMAIN memory' = DOMAIN memory \cup {r.tx}
    BY <1>1, <1>3, <1>7, HistoryStored DEF ReportTypes
  <1>10. /\ PartialFn(battery', Linux \cup Fresh, Clients)
         /\ TxBy(battery, battery', r.tx, r.serial)
         /\ DOMAIN battery' \subseteq DOMAIN battery \cup {r.tx}
    BY <1>1, <1>3, <1>7, HistoryStored DEF ReportTypes
  <1>11. Stores(r.tx, r.serial)
    BY <1>2, <1>5, <1>8, <1>9, <1>10, SameRows DEF Stores
  <1>12. TypeOK'
    <2>1. ReportTypes'
      BY <1>2, <1>5, <1>6, <1>7, <1>8, <1>9, <1>10 DEF ReportTypes, PartialFn
    <2>2. QED
      BY <1>2, <1>7, <2>1, JobsUnchanged, TypeHalves
  <1>13. ReportsWhole'
    <2>1. ReportsWhole
      BY DEF ReportIInv
    <2>2. /\ DOMAIN disk' \cup DOMAIN memory' \cup DOMAIN battery' \subseteq DOMAIN firmware'
          /\ DOMAIN disk' \cap Linux = DOMAIN memory' \cap Linux
          /\ DOMAIN battery' \cap Linux \subseteq DOMAIN disk'
      BY <1>6, <1>8, <1>9, <1>10, <2>1 DEF ReportsWhole
    <2>3. QED
      BY <1>6, <1>11, <2>1, <2>2, StoresWhole
  <1>14. QED
    BY <1>1, <1>2, <1>6, <1>11, <1>12, <1>13, LinuxReportOwned DEF ReportIInv

LEMMA WindowsType ==
    ASSUME NEW r \in WindowsReports
    PROVE  /\ r.tag \in Named /\ r.serial \in Named /\ r.tpm \in BOOLEAN
           /\ r.bios \in BOOLEAN /\ r.memory \in BOOLEAN /\ r.disk \in BOOLEAN
           /\ r.battery \in BOOLEAN /\ r.name \in BOOLEAN
  BY ReportAssumption DEF WindowsReport

LEMMA OSStored ==
    ASSUME TypeOK, NEW c \in Clients, NEW x, NEW o \in OSRow, o.tx = x,
           osInfo' = With(osInfo, c, o)
    PROVE  PartialFn(osInfo', Clients, OSRow) /\ RowBy(osInfo, osInfo', c, x)
  BY DEF TypeOK, PartialFn, With, RowBy

\* A Windows report that finds its client is stored.
LEMMA WindowsStored ==
    ASSUME ReportIInv, NEW r \in WindowsReports, NEW x \in Fresh \ used,
           ReceiveWindowsClientInfo(r, x), LockClientRow(r.serial)
    PROVE  /\ Stores(x, r.serial) /\ FirmwareBy(x, r.tag)
           /\ TypeOK' /\ ReportsWhole'
  <1> DEFINE h == ReportedHardware(r.serial, x, r.tpm)
             f == ReportedFirmware(r.tag, x, r.bios)
             o == [tx |-> x, name |-> r.name]
  <1>1. /\ r.serial \in Clients /\ r.tag \in Named /\ x \in Linux \cup Fresh
        /\ r.tpm \in BOOLEAN /\ r.bios \in BOOLEAN /\ r.memory \in BOOLEAN
        /\ r.disk \in BOOLEAN /\ r.battery \in BOOLEAN /\ r.name \in BOOLEAN
    BY WindowsType DEF LockClientRow
  <1>2. x \notin DOMAIN firmware /\ x \notin Linux
    BY TxAssumption DEF ReportIInv, FreshUnused
  <1>3. /\ used' = used \cup {x}
        /\ agreed' = IF r.tag = r.serial THEN agreed \cup {x} ELSE agreed
        /\ hardware' = With(hardware, r.serial, h) /\ firmware' = With(firmware, x, f)
        /\ checked' = With(checked, r.serial, TRUE) /\ osInfo' = With(osInfo, r.serial, o)
        /\ UNCHANGED <<job, clock>>
    BY DEF ReceiveWindowsClientInfo, WindowsMachine, WindowsHistories, WindowsOS,
           WindowsFirmware
  <1>4. /\ disk' = WithIf(r.disk, disk, x, r.serial)
        /\ memory' = WithIf(r.memory, memory, x, r.serial)
        /\ battery' = WithIf(r.battery, battery, x, r.serial)
    BY DEF ReceiveWindowsClientInfo, WindowsHistories
  <1>5. h \in HardwareRow /\ h.tx = x
    BY <1>1, ReportedHardwareType DEF ReportIInv
  <1>6. f \in FirmwareRow /\ f.client = r.tag
    BY <1>1, <1>2, ReportedFirmwareType DEF ReportIInv
  <1>7. o \in OSRow /\ o.tx = x
    BY <1>1 DEF OSRow
  <1> HIDE DEF h, f, o
  <1>8. PartialFn(hardware', Clients, HardwareRow) /\ RowBy(hardware, hardware', r.serial, x)
    BY <1>1, <1>3, <1>5, HardwareStored DEF ReportIInv
  <1>9. PartialFn(osInfo', Clients, OSRow) /\ RowBy(osInfo, osInfo', r.serial, x)
    BY <1>1, <1>3, <1>7, OSStored DEF ReportIInv
  <1>10. /\ PartialFn(firmware', Linux \cup Fresh, FirmwareRow) /\ FirmwareBy(x, r.tag)
         /\ DOMAIN firmware' = DOMAIN firmware \cup {x}
    BY <1>1, <1>3, <1>6, FirmwareStored DEF ReportIInv
  <1>11. PartialFn(checked', Clients, BOOLEAN)
    BY <1>1, <1>3 DEF ReportIInv, TypeOK, PartialFn, With
  <1>12. ReportTypes /\ JobTypes
    BY TypeHalves DEF ReportIInv
  <1>13. /\ PartialFn(disk', Linux \cup Fresh, Clients) /\ TxBy(disk, disk', x, r.serial)
         /\ DOMAIN disk \subseteq DOMAIN disk' /\ DOMAIN disk' \subseteq DOMAIN disk \cup {x}
    BY <1>1, <1>4, <1>12, HistoryStored DEF ReportTypes
  <1>14. /\ PartialFn(memory', Linux \cup Fresh, Clients) /\ TxBy(memory, memory', x, r.serial)
         /\ DOMAIN memory \subseteq DOMAIN memory'
         /\ DOMAIN memory' \subseteq DOMAIN memory \cup {x}
    BY <1>1, <1>4, <1>12, HistoryStored DEF ReportTypes
  <1>15. /\ PartialFn(battery', Linux \cup Fresh, Clients)
         /\ TxBy(battery, battery', x, r.serial)
         /\ DOMAIN battery' \subseteq DOMAIN battery \cup {x}
    BY <1>1, <1>4, <1>12, HistoryStored DEF ReportTypes
  <1>16. Stores(x, r.serial)
    BY <1>8, <1>9, <1>13, <1>14, <1>15 DEF Stores
  <1>17. TypeOK'
    <2>1. used' \subseteq Fresh /\ agreed' \subseteq used'
      BY <1>3, <1>12 DEF ReportTypes
    <2>2. ReportTypes'
      BY <1>8, <1>9, <1>10, <1>11, <1>13, <1>14, <1>15, <2>1 DEF ReportTypes
    <2>3. QED
      BY <1>3, <1>12, <2>2, JobsUnchanged, TypeHalves
  <1>18. ReportsWhole'
    <2>1. ReportsWhole
      BY DEF ReportIInv
    <2>2. /\ DOMAIN disk' \cup DOMAIN memory' \cup DOMAIN battery' \subseteq DOMAIN firmware'
          /\ DOMAIN disk' \cap Linux = DOMAIN memory' \cap Linux
          /\ DOMAIN battery' \cap Linux \subseteq DOMAIN disk'
      BY <1>2, <1>10, <1>13, <1>14, <1>15, <2>1 DEF ReportsWhole
    <2>3. QED
      BY <1>10, <1>16, <2>1, <2>2, StoresWhole
  <1>19. QED
    BY <1>10, <1>16, <1>17, <1>18

LEMMA ReceiveWindowsClientInfoStep ==
    ASSUME ReportIInv, NEW r \in WindowsReports, NEW x \in Fresh,
           ReceiveWindowsClientInfo(r, x)
    PROVE  ReportIInv'
  <1>1. /\ x \in Fresh \ used /\ used' = used \cup {x}
        /\ agreed' = IF r.tag = r.serial THEN agreed \cup {x} ELSE agreed
        /\ UNCHANGED <<job, clock>>
    BY DEF ReceiveWindowsClientInfo, NewV7
  <1>2. CASE LockClientRow(r.serial)
    <2>1. Stores(x, r.serial) /\ FirmwareBy(x, r.tag) /\ TypeOK' /\ ReportsWhole'
      BY <1>1, <1>2, WindowsStored
    <2>2. QED
      BY <1>1, <2>1, WindowsReportOwned DEF ReportIInv
  <1>3. CASE ~LockClientRow(r.serial)
    <2>1. UNCHANGED <<hardware, osInfo, checked, firmware, disk, memory, battery>>
      BY <1>3 DEF ReceiveWindowsClientInfo
    <2>2. Stores(x, r.serial) /\ FirmwareBy(x, r.tag)
      BY <2>1, SameRows DEF Stores, FirmwareBy
    <2>3. ReportsWhole'
      BY <2>1 DEF ReportIInv, ReportsWhole
    <2>4. TypeOK'
      <3>1. ReportTypes /\ JobTypes
        BY TypeHalves DEF ReportIInv
      <3>2. ReportTypes'
        BY <1>1, <2>1, <3>1 DEF ReportTypes, PartialFn
      <3>3. QED
        BY <1>1, <3>1, <3>2, JobsUnchanged, TypeHalves
    <2>5. QED
      BY <1>1, <2>2, <2>3, <2>4, WindowsReportOwned DEF ReportIInv
  <1>4. QED
    BY <1>2, <1>3

\* Steps that write at most a row of one of the two tables, for no transaction.
LEMMA RowStep ==
    ASSUME ReportIInv, NEW c, RowBy(hardware, hardware', c, None),
           RowBy(osInfo, osInfo', c, None), PartialFn(hardware', Clients, HardwareRow),
           PartialFn(osInfo', Clients, OSRow), JobTypes',
           UNCHANGED <<checked, firmware, disk, memory, battery, used, agreed>>
    PROVE  ReportIInv'
  <1>1. Stores(None, c)
    BY SameRows DEF Stores
  <1>2. TypeOK'
    <2>1. ReportTypes
      BY TypeHalves DEF ReportIInv
    <2>2. ReportTypes'
      BY <2>1 DEF ReportTypes, PartialFn
    <2>3. QED
      BY <2>2, TypeHalves
  <1>3. ReportsWhole'
    <2>1. ReportsWhole
      BY DEF ReportIInv
    <2>2. /\ DOMAIN disk' \cup DOMAIN memory' \cup DOMAIN battery' \subseteq DOMAIN firmware'
          /\ DOMAIN disk' \cap Linux = DOMAIN memory' \cap Linux
          /\ DOMAIN battery' \cap Linux \subseteq DOMAIN disk'
      BY <2>1 DEF ReportsWhole
    <2>3. QED
      BY <1>1, <2>1, <2>2, StoresWhole
  <1>4. QED
    BY <1>1, <1>2, <1>3, OtherOwned DEF ReportIInv

LEMMA FormStep ==
    ASSUME ReportIInv, NEW c \in Clients,
           UpdateInventoryHardwareData(c) \/ InsertInventoryUpdate(c)
    PROVE  ReportIInv'
  <1>1. ReportTypes /\ JobTypes
    BY TypeHalves DEF ReportIInv
  <1>2. CASE UpdateInventoryHardwareData(c)
    <2> DEFINE h == [HardwareOf(c) EXCEPT !.tx = None]
    <2>1. /\ hardware' = With(hardware, c, h)
          /\ UNCHANGED <<osInfo, checked, firmware, disk, memory, battery, used, agreed, job,
                         clock>>
      BY <1>2 DEF UpdateInventoryHardwareData
    <2>2. h \in HardwareRow /\ h.tx = None
      BY FormHardwareType DEF ReportIInv
    <2> HIDE DEF h
    <2>3. PartialFn(hardware', Clients, HardwareRow) /\ RowBy(hardware, hardware', c, None)
      BY <2>1, <2>2, HardwareStored DEF ReportIInv
    <2>4. PartialFn(osInfo', Clients, OSRow) /\ RowBy(osInfo, osInfo', c, None)
      BY <1>1, <2>1, SameRows DEF ReportTypes
    <2>5. QED
      BY <1>1, <2>1, <2>3, <2>4, JobsUnchanged, RowStep
  <1>3. CASE InsertInventoryUpdate(c)
    <2> DEFINE o == [OSOf(c) EXCEPT !.tx = None]
    <2>1. /\ osInfo' = With(osInfo, c, o)
          /\ UNCHANGED <<hardware, checked, firmware, disk, memory, battery, used, agreed, job,
                         clock>>
      BY <1>3 DEF InsertInventoryUpdate
    <2>2. o \in OSRow /\ o.tx = None
      BY FormOSType DEF ReportIInv
    <2> HIDE DEF o
    <2>3. PartialFn(osInfo', Clients, OSRow) /\ RowBy(osInfo, osInfo', c, None)
      BY <2>1, <2>2, OSStored DEF ReportIInv
    <2>4. PartialFn(hardware', Clients, HardwareRow) /\ RowBy(hardware, hardware', c, None)
      BY <1>1, <2>1, SameRows DEF ReportTypes
    <2>5. QED
      BY <1>1, <2>1, <2>3, <2>4, JobsUnchanged, RowStep
  <1>4. QED
    BY <1>2, <1>3

LEMMA DeleteOSInfoStep ==
    ASSUME ReportIInv, NEW c \in Clients, NEW d \in Clients, DeleteOSInfoByTagnumber(c, d)
    PROVE  ReportIInv'
  <1>1. ReportTypes /\ JobTypes
    BY TypeHalves DEF ReportIInv
  <1>2. /\ osInfo' = [e \in DOMAIN osInfo \ {c} |-> osInfo[e]]
        /\ UNCHANGED <<hardware, checked, firmware, disk, memory, battery, used, agreed, job,
                       clock>>
    BY DEF DeleteOSInfoByTagnumber
  <1>3. PartialFn(osInfo', Clients, OSRow) /\ RowBy(osInfo, osInfo', c, None)
    BY <1>1, <1>2 DEF ReportTypes, PartialFn, RowBy
  <1>4. PartialFn(hardware', Clients, HardwareRow) /\ RowBy(hardware, hardware', c, None)
    BY <1>1, <1>2, SameRows DEF ReportTypes
  <1>5. QED
    BY <1>1, <1>2, <1>3, <1>4, JobsUnchanged, RowStep

\* Steps that leave the reports alone.
LEMMA MachineUnchanged ==
    ASSUME ReportIInv, UNCHANGED machine, JobTypes'
    PROVE  ReportIInv'
  <1>1. ReportTypes
    BY TypeHalves DEF ReportIInv
  <1>2. PartialFn(hardware', Clients, HardwareRow) /\ RowBy(hardware, hardware', None, None)
    BY <1>1, SameRows DEF machine, ReportTypes
  <1>3. PartialFn(osInfo', Clients, OSRow) /\ RowBy(osInfo, osInfo', None, None)
    BY <1>1, SameRows DEF machine, ReportTypes
  <1>4. QED
    BY <1>2, <1>3, RowStep DEF machine

-----------------------------------------------------------------------------
\* Jobs.

LEMMA JobReportType ==
    ASSUME NEW r \in JobReports
    PROVE  /\ r.client \in Named /\ r.start \in Nat /\ r.master \in BOOLEAN
           /\ r.erased \in BOOLEAN \cup {None} /\ r.cloned \in BOOLEAN \cup {None}
           /\ r.image \in STRING \cup {None}
  BY ReportAssumption DEF JobReport

LEMMA JobOfType ==
    ASSUME TypeOK, NEW r \in JobReports, r.client \in Clients
    PROVE  /\ JobOf(r) \in JobRow
           /\ r.job \in DOMAIN jobs => JobOf(r) = jobs[r.job]
           /\ r.job \notin DOMAIN jobs =>
                 ~JobOf(r).erased /\ ~JobOf(r).cloned /\ JobOf(r).image = None
  <1>1. CASE r.job \in DOMAIN jobs
    BY <1>1 DEF TypeOK, PartialFn, JobOf
  <1>2. CASE r.job \notin DOMAIN jobs
    BY <1>2 DEF JobOf, JobRow
  <1>3. QED
    BY <1>1, <1>2

LEMMA CoalesceBoolean ==
    ASSUME NEW new \in BOOLEAN \cup {None}, NEW old \in BOOLEAN
    PROVE  /\ Coalesce(new, old) \in BOOLEAN
           /\ Coalesce(new, old) => new = TRUE \/ old
           /\ new = TRUE => Coalesce(new, old)
           /\ new # FALSE /\ old => Coalesce(new, old)
  BY ClientAssumption DEF Coalesce

LEMMA ReportedJobType ==
    ASSUME TypeOK, NEW r \in JobReports, r.client \in Clients
    PROVE  /\ ReportedJob(r) \in JobRow
           /\ ReportedJob(r).client = r.client
           /\ ReportedJob(r).time = JobStartTime(r)
           /\ ReportedJob(r).erased = Coalesce(r.erased, JobOf(r).erased)
           /\ ReportedJob(r).cloned = Coalesce(r.cloned, JobOf(r).cloned)
           /\ ReportedJob(r).master = r.master
           /\ ReportedJob(r).image = Coalesce(r.image, JobOf(r).image)
  <1>1. JobOf(r) \in JobRow
    BY JobOfType
  <1>2. JobStartTime(r) \in Nat
    BY JobReportType DEF JobStartTime, TypeOK
  <1>3. /\ JobOf(r).erased \in BOOLEAN /\ JobOf(r).cloned \in BOOLEAN
        /\ JobOf(r).image \in STRING \cup {None}
    BY <1>1 DEF JobRow
  <1>4. /\ Coalesce(r.erased, JobOf(r).erased) \in BOOLEAN
        /\ Coalesce(r.cloned, JobOf(r).cloned) \in BOOLEAN
    BY <1>3, JobReportType, CoalesceBoolean
  <1>5. Coalesce(r.image, JobOf(r).image) \in STRING \cup {None}
    BY <1>3, JobReportType DEF Coalesce
  <1>6. r.master \in BOOLEAN
    BY JobReportType
  <1>7. QED
    BY <1>2, <1>4, <1>5, <1>6 DEF ReportedJob, JobRow

IInv == ReportIInv /\ JobIInv /\ OnlyMastersRefresh

\* A stored report on a job, and the row it makes.
LEMMA JobStored ==
    ASSUME IInv, NEW r \in JobReports, UpdateJobStats(r)
    PROVE  /\ r.client \in Clients /\ heard' = heard \cup {r}
           /\ heard' \subseteq JobReports
           /\ PartialFn(jobs', {q.job : q \in JobReports}, JobRow)
           /\ DOMAIN jobs' = DOMAIN jobs \cup {r.job}
           /\ jobs'[r.job] = ReportedJob(r)
           /\ \A j \in DOMAIN jobs : j # r.job => jobs'[j] = jobs[j]
  <1>1. r.client \in Clients /\ jobs' = With(jobs, r.job, ReportedJob(r))
        /\ heard' = heard \cup {r}
    BY DEF UpdateJobStats, LockClientRow
  <1>2. TypeOK
    BY DEF IInv, ReportIInv
  <1>3. ReportedJob(r) \in JobRow
    BY <1>1, <1>2, ReportedJobType
  <1>4. PartialFn(jobs, {q.job : q \in JobReports}, JobRow) /\ heard \subseteq JobReports
    BY <1>2 DEF TypeOK
  <1>5. QED
    BY <1>1, <1>3, <1>4 DEF PartialFn, With

LEMMA RowsHeardStep ==
    ASSUME IInv, NEW r \in JobReports, UpdateJobStats(r)
    PROVE  RowsHeard'
  <1>1. /\ r.client \in Clients /\ heard' = heard \cup {r}
        /\ DOMAIN jobs' = DOMAIN jobs \cup {r.job} /\ jobs'[r.job] = ReportedJob(r)
        /\ \A j \in DOMAIN jobs : j # r.job => jobs'[j] = jobs[j]
    BY JobStored
  <1>2. SUFFICES ASSUME NEW j \in DOMAIN jobs'
                 PROVE  /\ jobs'[j].master => \E q \in heard' : q.job = j /\ q.master
                        /\ jobs'[j].image # None =>
                              \E q \in heard' : q.job = j /\ q.image = jobs'[j].image
                        /\ \E q \in heard' : q.job = j
    BY DEF RowsHeard
  <1>3. CASE j # r.job
    BY <1>1, <1>3 DEF IInv, JobIInv, RowsHeard
  <1>4. CASE j = r.job
    <2>1. TypeOK
      BY DEF IInv, ReportIInv
    <2>2. /\ jobs'[j].master = r.master
          /\ jobs'[j].image = Coalesce(r.image, JobOf(r).image)
      BY <1>1, <1>4, <2>1, ReportedJobType
    <2>3. CASE r.image # None
      BY <1>1, <1>4, <2>2, <2>3 DEF Coalesce
    <2>4. CASE r.image = None
      <3>1. jobs'[j].image = JobOf(r).image
        BY <2>2, <2>4 DEF Coalesce
      <3>2. jobs'[j].image # None => j \in DOMAIN jobs /\ JobOf(r) = jobs[j]
        BY <1>1, <1>4, <2>1, <3>1, JobOfType
      <3>3. QED
        BY <1>1, <1>4, <2>2, <3>1, <3>2 DEF IInv, JobIInv, RowsHeard
    <2>5. QED
      BY <2>3, <2>4
  <1>5. QED
    BY <1>3, <1>4

LEMMA OutcomesHeardStep ==
    ASSUME IInv, NEW r \in JobReports, UpdateJobStats(r)
    PROVE  OutcomesHeard'
  <1>1. /\ r.client \in Clients /\ heard' = heard \cup {r}
        /\ DOMAIN jobs' = DOMAIN jobs \cup {r.job} /\ jobs'[r.job] = ReportedJob(r)
        /\ \A j \in DOMAIN jobs : j # r.job => jobs'[j] = jobs[j]
    BY JobStored
  <1>2. SUFFICES ASSUME NEW j \in DOMAIN jobs'
                 PROVE  /\ jobs'[j].erased => \E q \in heard' : q.job = j /\ q.erased = TRUE
                        /\ jobs'[j].cloned => \E q \in heard' : q.job = j /\ q.cloned = TRUE
    BY DEF OutcomesHeard
  <1>3. CASE j # r.job
    BY <1>1, <1>3 DEF IInv, JobIInv, OutcomesHeard
  <1>4. CASE j = r.job
    <2>1. TypeOK
      BY DEF IInv, ReportIInv
    <2>2. /\ jobs'[j].erased = Coalesce(r.erased, JobOf(r).erased)
          /\ jobs'[j].cloned = Coalesce(r.cloned, JobOf(r).cloned)
      BY <1>1, <1>4, <2>1, ReportedJobType
    <2>3. JobOf(r).erased \in BOOLEAN /\ JobOf(r).cloned \in BOOLEAN
      BY <1>1, <2>1, JobOfType DEF JobRow
    <2>4. /\ jobs'[j].erased => r.erased = TRUE \/ JobOf(r).erased
          /\ jobs'[j].cloned => r.cloned = TRUE \/ JobOf(r).cloned
      BY <2>2, <2>3, JobReportType, CoalesceBoolean
    <2>5. JobOf(r).erased \/ JobOf(r).cloned => j \in DOMAIN jobs /\ JobOf(r) = jobs[j]
      BY <1>1, <1>4, <2>1, JobOfType
    <2>6. /\ JobOf(r).erased => \E q \in heard' : q.job = j /\ q.erased = TRUE
          /\ JobOf(r).cloned => \E q \in heard' : q.job = j /\ q.cloned = TRUE
      BY <1>1, <2>5 DEF IInv, JobIInv, OutcomesHeard
    <2>7. QED
      BY <1>1, <1>4, <2>4, <2>6
  <1>5. QED
    BY <1>3, <1>4

LEMMA HeardStoredStep ==
    ASSUME IInv, NEW r \in JobReports, UpdateJobStats(r)
    PROVE  HeardStored'
  <1>1. /\ r.client \in Clients /\ heard' = heard \cup {r} /\ heard' \subseteq JobReports
        /\ DOMAIN jobs' = DOMAIN jobs \cup {r.job} /\ jobs'[r.job] = ReportedJob(r)
        /\ \A j \in DOMAIN jobs : j # r.job => jobs'[j] = jobs[j]
    BY JobStored
  <1>2. TypeOK /\ HeardStored
    BY DEF IInv, ReportIInv, JobIInv
  <1>3. ASSUME NEW c, Regular(c)'
        PROVE  Regular(c) /\ (r.client = c => r.start # 0 /\ r.erased # FALSE /\ r.cloned # FALSE)
    BY <1>1, <1>3 DEF Regular
  <1>4. SUFFICES ASSUME NEW q \in heard'
                 PROVE  /\ q.job \in DOMAIN jobs' /\ jobs'[q.job].client = q.client
                        /\ Regular(q.client)' =>
                              /\ jobs'[q.job].time = q.start
                              /\ q.erased = TRUE => jobs'[q.job].erased
                              /\ q.cloned = TRUE => jobs'[q.job].cloned
    BY DEF HeardStored
  <1>5. CASE q.job # r.job
    <2>1. q \in heard /\ q.job \in DOMAIN jobs /\ jobs'[q.job] = jobs[q.job]
      BY <1>1, <1>2, <1>5 DEF HeardStored
    <2>2. q.job \in DOMAIN jobs' /\ jobs'[q.job].client = q.client
      BY <1>1, <1>2, <2>1 DEF HeardStored
    <2>3. ASSUME Regular(q.client)'
          PROVE  /\ jobs'[q.job].time = q.start
                 /\ q.erased = TRUE => jobs'[q.job].erased
                 /\ q.cloned = TRUE => jobs'[q.job].cloned
      BY <1>2, <1>3, <2>1, <2>3 DEF HeardStored
    <2>4. QED
      BY <2>2, <2>3
  <1>6. CASE q.job = r.job
    <2>1. q \in JobReports /\ q.client = r.client
      BY <1>1, <1>6, JobAssumption
    <2>2. q.job \in DOMAIN jobs' /\ jobs'[q.job].client = q.client
      BY <1>1, <1>2, <1>6, <2>1, ReportedJobType
    <2>3. ASSUME Regular(q.client)'
          PROVE  /\ jobs'[q.job].time = q.start
                 /\ q.erased = TRUE => jobs'[q.job].erased
                 /\ q.cloned = TRUE => jobs'[q.job].cloned
      <3>1. Regular(q.client) /\ r.start # 0 /\ r.erased # FALSE /\ r.cloned # FALSE
        BY <1>3, <2>1, <2>3
      <3>2. q.start # 0
        BY <1>1, <2>3 DEF Regular
      <3>3. q.start = r.start
        BY <1>6, <2>1, <3>1, <3>2, JobAssumption
      <3>4. /\ jobs'[q.job].time = JobStartTime(r)
            /\ jobs'[q.job].erased = Coalesce(r.erased, JobOf(r).erased)
            /\ jobs'[q.job].cloned = Coalesce(r.cloned, JobOf(r).cloned)
        BY <1>1, <1>2, <1>6, ReportedJobType
      <3>5. JobStartTime(r) = r.start
        BY <3>1 DEF JobStartTime
      <3>6. JobOf(r).erased \in BOOLEAN /\ JobOf(r).cloned \in BOOLEAN
        BY <1>1, <1>2, JobOfType DEF JobRow
      <3>7. /\ r.erased = TRUE \/ JobOf(r).erased => jobs'[q.job].erased
            /\ r.cloned = TRUE \/ JobOf(r).cloned => jobs'[q.job].cloned
        BY <3>1, <3>4, <3>6, JobReportType, CoalesceBoolean
      <3>8. CASE q = r
        BY <3>3, <3>4, <3>5, <3>7, <3>8
      <3>9. CASE q # r
        <4>1. q \in heard /\ r.job \in DOMAIN jobs
          BY <1>1, <1>2, <1>6, <3>9 DEF HeardStored
        <4>2. JobOf(r) = jobs[q.job]
          BY <1>1, <1>2, <1>6, <4>1, JobOfType
        <4>3. /\ q.erased = TRUE => JobOf(r).erased
              /\ q.cloned = TRUE => JobOf(r).cloned
          BY <1>2, <3>1, <4>1, <4>2 DEF HeardStored
        <4>4. QED
          BY <3>3, <3>4, <3>5, <3>7, <4>3
      <3>10. QED
        BY <3>8, <3>9
    <2>4. QED
      BY <2>2, <2>3
  <1>7. QED
    BY <1>5, <1>6

\* The image a master's report refreshes is a reported one.
LEMMA RefreshedStep ==
    ASSUME IInv, NEW r \in JobReports, UpdateJobStats(r)
    PROVE  /\ refreshed' \subseteq {q.image : q \in JobReports} \ {None}
           /\ OnlyMastersRefresh'
  <1>1. RowsHeard' /\ heard' = heard \cup {r} /\ heard' \subseteq JobReports
    BY RowsHeardStep, JobStored
  <1>2. /\ refreshed \subseteq {q.image : q \in JobReports} \ {None}
        /\ OnlyMastersRefresh
    BY DEF IInv, ReportIInv, TypeOK
  <1>3. ASSUME NEW i \in refreshed'
        PROVE  \/ i \in refreshed
               \/ /\ i # None
                  /\ \E n \in DOMAIN jobs' : jobs'[n].master /\ i = jobs'[n].image
    <2>1. CASE r.master
      <3>1. PICK n \in Newest(jobs', Masters(jobs', r.client)) :
               refreshed' = refreshed \cup ({jobs'[n].image} \ {None})
        BY <2>1 DEF UpdateJobStats
      <3>2. n \in DOMAIN jobs' /\ jobs'[n].master
        BY <3>1 DEF Newest, Masters
      <3>3. QED
        BY <1>3, <3>1, <3>2
    <2>2. CASE ~r.master
      BY <1>3, <2>2 DEF UpdateJobStats
    <2>3. QED
      BY <2>1, <2>2
  <1>4. ASSUME NEW i, i # None, NEW n \in DOMAIN jobs', jobs'[n].master, i = jobs'[n].image
        PROVE  /\ \E p, q \in heard' : p.job = q.job /\ p.master /\ q.image = i
               /\ i \in {q.image : q \in JobReports}
    <2>1. PICK p \in heard' : p.job = n /\ p.master
      BY <1>1, <1>4 DEF RowsHeard
    <2>2. PICK q \in heard' : q.job = n /\ q.image = i
      BY <1>1, <1>4 DEF RowsHeard
    <2>3. QED
      BY <1>1, <2>1, <2>2
  <1>5. refreshed' \subseteq {q.image : q \in JobReports} \ {None}
    BY <1>2, <1>3, <1>4
  <1>6. OnlyMastersRefresh'
    <2>1. SUFFICES ASSUME NEW i \in refreshed'
                   PROVE  \E p, q \in heard' : p.job = q.job /\ p.master /\ q.image = i
      BY DEF OnlyMastersRefresh
    <2>2. CASE i \in refreshed
      BY <1>1, <1>2, <2>2 DEF OnlyMastersRefresh
    <2>3. CASE i \notin refreshed
      BY <1>3, <1>4, <2>3
    <2>4. QED
      BY <2>2, <2>3
  <1>7. QED
    BY <1>5, <1>6

LEMMA UpdateJobStatsStep ==
    ASSUME IInv, NEW r \in JobReports, UpdateJobStats(r)
    PROVE  IInv'
  <1>1. UNCHANGED <<machine, clock>>
    BY DEF UpdateJobStats
  <1>2. JobTypes'
    <2>1. clock \in Nat
      BY DEF IInv, ReportIInv, TypeOK
    <2>2. QED
      BY <1>1, <2>1, JobStored, RefreshedStep DEF JobTypes
  <1>3. ReportIInv'
    BY <1>1, <1>2, MachineUnchanged DEF IInv
  <1>4. QED
    BY <1>3, RowsHeardStep, OutcomesHeardStep, HeardStoredStep, RefreshedStep
       DEF IInv, JobIInv

\* What is not a report on a job says nothing of jobs.
LEMMA JobUnchanged ==
    ASSUME IInv, UNCHANGED job
    PROVE  JobIInv' /\ OnlyMastersRefresh'
  <1>1. UNCHANGED <<jobs, refreshed, heard>>
    BY DEF job
  <1>2. RowsHeard' /\ OutcomesHeard'
    BY <1>1 DEF IInv, JobIInv, RowsHeard, OutcomesHeard
  <1>3. HeardStored'
    <2>1. \A c : Regular(c)' <=> Regular(c)
      BY <1>1 DEF Regular
    <2>2. QED
      BY <1>1, <2>1 DEF IInv, JobIInv, HeardStored
  <1>4. OnlyMastersRefresh'
    BY <1>1 DEF IInv, OnlyMastersRefresh
  <1>5. QED
    BY <1>2, <1>3, <1>4 DEF JobIInv

LEMMA InitIInv == Init => IInv
  <1>1. ASSUME Init PROVE IInv
    <2>1. PartialFn(NoRows, Clients, HardwareRow) /\ PartialFn(NoRows, Clients, OSRow)
          /\ PartialFn(NoRows, Clients, BOOLEAN)
          /\ PartialFn(NoRows, Linux \cup Fresh, FirmwareRow)
          /\ PartialFn(NoRows, Linux \cup Fresh, Clients)
          /\ PartialFn(NoRows, {r.job : r \in JobReports}, JobRow)
          /\ DOMAIN NoRows = {}
      BY DEF NoRows, PartialFn
    <2>2. TypeOK
      BY <1>1, <2>1 DEF Init, TypeOK
    <2>3. ReportsWhole
      BY <1>1, <2>1 DEF Init, ReportsWhole
    <2>4. \A x : Reporters(x) = {}
      BY <1>1, <2>1 DEF Init, Reporters
    <2>5. LinuxOwned /\ FreshUnused /\ FreshOwned
      BY <1>1, <2>1, <2>4 DEF Init, LinuxOwned, FreshUnused, FreshOwned
    <2>6. JobIInv /\ OnlyMastersRefresh
      BY <1>1, <2>1 DEF Init, JobIInv, RowsHeard, HeardStored, OutcomesHeard,
                        OnlyMastersRefresh
    <2>7. QED
      BY <2>2, <2>3, <2>5, <2>6 DEF IInv, ReportIInv
  <1>2. QED
    BY <1>1

LEMMA StepIInv == IInv /\ [Next]_vars => IInv'
  <1>1. ASSUME IInv, UNCHANGED vars PROVE IInv'
    <2>1. UNCHANGED <<machine, job, clock>>
      BY <1>1 DEF vars
    <2>2. JobTypes'
      BY <1>1, <2>1, TypeHalves, JobsUnchanged DEF IInv, ReportIInv
    <2>3. QED
      BY <1>1, <2>1, <2>2, MachineUnchanged, JobUnchanged DEF IInv
  <1>2. ASSUME IInv, NEW r \in Checks, UpdateClientHealthCheck(r) PROVE IInv'
    BY <1>2, UpdateClientHealthCheckStep, JobUnchanged DEF IInv, UpdateClientHealthCheck
  <1>3. ASSUME IInv, NEW r \in HardwareReports, SetClientHardwareData(r) PROVE IInv'
    BY <1>3, SetClientHardwareDataStep, JobUnchanged DEF IInv, SetClientHardwareData
  <1>4. ASSUME IInv, NEW r \in WindowsReports, NEW x \in Fresh, ReceiveWindowsClientInfo(r, x)
        PROVE  IInv'
    BY <1>4, ReceiveWindowsClientInfoStep, JobUnchanged DEF IInv, ReceiveWindowsClientInfo
  <1>5. ASSUME IInv, NEW c \in Clients, NEW d \in Clients, DeleteOSInfoByTagnumber(c, d)
        PROVE  IInv'
    BY <1>5, DeleteOSInfoStep, JobUnchanged DEF IInv, DeleteOSInfoByTagnumber
  <1>6. ASSUME IInv, NEW c \in Clients,
               UpdateInventoryHardwareData(c) \/ InsertInventoryUpdate(c)
        PROVE  IInv'
    BY <1>6, FormStep, JobUnchanged
       DEF IInv, UpdateInventoryHardwareData, InsertInventoryUpdate
  <1>7. ASSUME IInv, NEW r \in JobReports, UpdateJobStats(r) PROVE IInv'
    BY <1>7, UpdateJobStatsStep
  <1>8. ASSUME IInv, TimePasses PROVE IInv'
    <2>1. UNCHANGED <<machine, job>> /\ clock' = clock + 1
      BY <1>8 DEF TimePasses
    <2>2. JobTypes
      BY <1>8, TypeHalves DEF IInv, ReportIInv
    <2>3. JobTypes'
      BY <2>1, <2>2 DEF JobTypes, job, PartialFn
    <2>4. QED
      BY <1>8, <2>1, <2>3, MachineUnchanged, JobUnchanged DEF IInv
  <1>9. QED
    BY <1>1, <1>2, <1>3, <1>4, <1>5, <1>6, <1>7, <1>8 DEF Next

\* The inductive invariant: whose rows each transaction has written, and that a
\* job's row is what its reports have said (update-repo.go).
THEOREM Inductive == Spec => []IInv
  BY InitIInv, StepIInv, PTL DEF Spec

\* The types, for any constants: among others, only known clients have rows.
THEOREM Typing == Spec => []TypeOK
  <1>1. IInv => TypeOK
    BY DEF IInv, ReportIInv
  <1>2. QED
    BY <1>1, Inductive, PTL

\* Whatever reports arrive, each is stored whole.
THEOREM WholeHolds == Spec => []ReportsWhole
  <1>1. IInv => ReportsWhole
    BY DEF IInv, ReportIInv
  <1>2. QED
    BY <1>1, Inductive, PTL

\* Images are refreshed by master jobs only.
THEOREM RefreshHolds == Spec => []OnlyMastersRefresh
  <1>1. IInv => OnlyMastersRefresh
    BY DEF IInv
  <1>2. QED
    BY <1>1, Inductive, PTL

-----------------------------------------------------------------------------
\* Whose rows are whose.

LEMMA ReportsOwned == ReportIInv => StoredForReporter
  <1> SUFFICES ASSUME ReportIInv, NEW x \in DOMAIN firmware
               PROVE  /\ x \in Linux =>
                           \A c \in Reporters(x) \cup {firmware[x].client} : Given(x, c)
                      /\ x \in Fresh => \A c, d \in Reporters(x) : c = d
                      /\ x \in agreed => Reporters(x) \subseteq {firmware[x].client}
    BY DEF StoredForReporter
  <1>1. agreed \subseteq Fresh
    BY DEF ReportIInv, TypeOK
  <1>2. CASE x \in Linux
    BY <1>1, <1>2, TxAssumption DEF ReportIInv, LinuxOwned
  <1>3. CASE x \in Fresh
    BY <1>3, TxAssumption DEF ReportIInv, FreshOwned
  <1>4. CASE x \notin Linux \cup Fresh
    BY <1>1, <1>4
  <1>5. QED
    BY <1>2, <1>3, <1>4

\* Whatever a client sends under whatever id, what is stored under the id is
\* stored for a client that a report with this id named.
THEOREM StoredForReporterHolds == Spec => []StoredForReporter
  <1>1. IInv => StoredForReporter
    BY ReportsOwned DEF IInv
  <1>2. QED
    BY <1>1, Inductive, PTL

-----------------------------------------------------------------------------
\* What is known stays known.

HardwareKept == \A c \in DOMAIN hardware :
                   hardware[c].tpm => c \in DOMAIN hardware' /\ hardware'[c].tpm
FirmwareKept == \A x \in DOMAIN firmware :
                   firmware[x].bios => x \in DOMAIN firmware' /\ firmware'[x].bios

LEMMA HardwareRowKept ==
    ASSUME TypeOK, NEW c, NEW h, HardwareOf(c).tpm => h.tpm, hardware' = With(hardware, c, h)
    PROVE  HardwareKept
  BY HardwareOfType DEF With, HardwareKept

LEMMA FirmwareRowKept ==
    ASSUME NEW x, NEW f, x \in DOMAIN firmware /\ firmware[x].bios => f.bios,
           firmware' = With(firmware, x, f)
    PROVE  FirmwareKept
  BY DEF With, FirmwareKept

LEMMA StepKeeps == IInv /\ [Next]_vars => HardwareKept /\ FirmwareKept
  <1> SUFFICES ASSUME IInv, [Next]_vars PROVE HardwareKept /\ FirmwareKept
    OBVIOUS
  <1>1. TypeOK
    BY DEF IInv, ReportIInv
  <1>2. ASSUME NEW r \in Checks, UpdateClientHealthCheck(r)
        PROVE  HardwareKept /\ FirmwareKept
    <2> DEFINE h == ReportedHardware(r.tag, r.tx, r.tpm)
               f == ReportedFirmware(r.tag, r.tx, r.bios)
    <2>1. /\ r.tx \in Linux /\ r.tpm \in BOOLEAN /\ r.bios \in BOOLEAN /\ r.tag \in Named
          /\ hardware' = With(hardware, r.tag, h) /\ firmware' = With(firmware, r.tx, f)
      BY <1>2, CheckType DEF UpdateClientHealthCheck
    <2>2. HardwareOf(r.tag).tpm => h.tpm
      BY <1>1, <2>1, ReportedHardwareType
    <2>3. r.tx \in DOMAIN firmware /\ firmware[r.tx].bios => f.bios
      BY <1>1, <2>1, ReportedFirmwareType
    <2> HIDE DEF h, f
    <2>4. QED
      BY <1>1, <2>1, <2>2, <2>3, HardwareRowKept, FirmwareRowKept
  <1>3. ASSUME NEW r \in HardwareReports, SetClientHardwareData(r)
        PROVE  HardwareKept /\ FirmwareKept
    <2> DEFINE h == ReportedHardware(r.serial, r.tx, r.tpm)
               f == ReportedFirmware(r.serial, r.tx, r.bios)
    <2>1. /\ r.tx \in Linux /\ r.tpm \in BOOLEAN /\ r.bios \in BOOLEAN /\ r.serial \in Named
          /\ hardware' = With(hardware, r.serial, h) /\ firmware' = With(firmware, r.tx, f)
      BY <1>3, HardwareType DEF SetClientHardwareData
    <2>2. HardwareOf(r.serial).tpm => h.tpm
      BY <1>1, <2>1, ReportedHardwareType
    <2>3. r.tx \in DOMAIN firmware /\ firmware[r.tx].bios => f.bios
      BY <1>1, <2>1, ReportedFirmwareType
    <2> HIDE DEF h, f
    <2>4. QED
      BY <1>1, <2>1, <2>2, <2>3, HardwareRowKept, FirmwareRowKept
  <1>4. ASSUME NEW r \in WindowsReports, NEW x \in Fresh, ReceiveWindowsClientInfo(r, x)
        PROVE  HardwareKept /\ FirmwareKept
    <2>1. CASE LockClientRow(r.serial)
      <3> DEFINE h == ReportedHardware(r.serial, x, r.tpm)
                 f == ReportedFirmware(r.tag, x, r.bios)
      <3>1. hardware' = With(hardware, r.serial, h) /\ firmware' = With(firmware, x, f)
        BY <1>4, <2>1 DEF ReceiveWindowsClientInfo, WindowsMachine, WindowsFirmware
      <3>2. HardwareOf(r.serial).tpm => h.tpm
        BY <1>1, WindowsType, ReportedHardwareType
      <3>3. x \in DOMAIN firmware /\ firmware[x].bios => f.bios
        BY <1>1, WindowsType, ReportedFirmwareType
      <3> HIDE DEF h, f
      <3>4. QED
        BY <1>1, <3>1, <3>2, <3>3, HardwareRowKept, FirmwareRowKept
    <2>2. CASE ~LockClientRow(r.serial)
      BY <1>4, <2>2 DEF ReceiveWindowsClientInfo, HardwareKept, FirmwareKept
    <2>3. QED
      BY <2>1, <2>2
  <1>5. ASSUME NEW c \in Clients, UpdateInventoryHardwareData(c)
        PROVE  HardwareKept /\ FirmwareKept
    <2> DEFINE h == [HardwareOf(c) EXCEPT !.tx = None]
    <2>1. hardware' = With(hardware, c, h) /\ firmware' = firmware
      BY <1>5 DEF UpdateInventoryHardwareData
    <2>2. h.tpm = HardwareOf(c).tpm
      BY <1>1, FormHardwareType
    <2> HIDE DEF h
    <2>3. QED
      BY <1>1, <2>1, <2>2, HardwareRowKept DEF FirmwareKept
  <1>6. ASSUME UNCHANGED <<hardware, firmware>>
        PROVE  HardwareKept /\ FirmwareKept
    BY <1>6 DEF HardwareKept, FirmwareKept
  <1>7. \/ \E r \in Checks : UpdateClientHealthCheck(r)
        \/ \E r \in HardwareReports : SetClientHardwareData(r)
        \/ \E r \in WindowsReports, x \in Fresh : ReceiveWindowsClientInfo(r, x)
        \/ \E c \in Clients : UpdateInventoryHardwareData(c)
        \/ UNCHANGED <<hardware, firmware>>
    BY DEF Next, DeleteOSInfoByTagnumber, InsertInventoryUpdate, UpdateJobStats, TimePasses,
           vars, machine
  <1>8. QED
    BY <1>2, <1>3, <1>4, <1>5, <1>6, <1>7

\* No report and no form makes a known TPM or BIOS version unknown.
THEOREM KnownHolds == Spec => KnownStaysKnown
  <1>1. IInv /\ [Next]_vars =>
           [/\ \A c \in DOMAIN hardware : hardware[c].tpm =>
                  c \in DOMAIN hardware' /\ hardware'[c].tpm
            /\ \A x \in DOMAIN firmware : firmware[x].bios =>
                  x \in DOMAIN firmware' /\ firmware'[x].bios]_vars
    BY StepKeeps DEF HardwareKept, FirmwareKept
  <1>2. QED
    BY <1>1, Inductive, PTL DEF Spec, KnownStaysKnown

-----------------------------------------------------------------------------
\* What the inventory shows of the operating system.

\* Of finitely many reports on jobs one started last.
LEMMA LastExists ==
    ASSUME NEW S, IsFiniteSet(S), S \subseteq JobReports, S # {}
    PROVE  \E r \in S : \A q \in S : q.start <= r.start
  <1> DEFINE After(r) == {q \in S : r.start < q.start}
             T == {After(r) : r \in S}
  <1>1. /\ IsWellFoundedOn(StrictSubsetOrdering(S), FiniteSubsetsOf(S))
        /\ FiniteSubsetsOf(S) = SUBSET S
    BY FS_StrictSubsetOrderingWellFounded, FS_FiniteSubsetsOfFinite
  <1>2. T \subseteq FiniteSubsetsOf(S) /\ T # {}
    <2>1. \A r \in S : After(r) \in SUBSET S
      OBVIOUS
    <2> HIDE DEF After
    <2>2. T \subseteq SUBSET S /\ T # {}
      BY <2>1
    <2>3. QED
      BY <1>1, <2>2
  <1> HIDE DEF T
  <1>3. PICK A \in T : \A B \in T : <<B, A>> \notin StrictSubsetOrdering(S)
    BY <1>1, <1>2, WFMin
  <1>4. PICK r \in S : A = After(r)
    BY <1>3 DEF T
  <1>5. \A q \in S : q.start \in Nat
    BY JobReportType
  <1>6. ASSUME NEW q \in S, ~(q.start <= r.start) PROVE FALSE
    <2>1. r.start < q.start
      BY <1>5, <1>6
    <2>2. After(q) \subseteq After(r) /\ q \in After(r) /\ q \notin After(q)
      BY <1>5, <2>1
    <2>3. After(q) \in T
      BY DEF T
    <2>4. <<After(q), After(r)>> \in StrictSubsetOrdering(S)
      BY <2>2 DEF StrictSubsetOrdering
    <2>5. QED
      BY <1>3, <1>4, <2>3, <2>4
  <1>7. QED
    BY <1>6

LEMMA NewestShown == IInv => InstalledFollowsNewestJob
  <1> SUFFICES ASSUME IInv, NEW c \in Clients, Regular(c)
               PROVE  LET done == {r \in heard : r.client = c /\ TRUE \in {r.erased, r.cloned}}
                          last == {r \in done : \A q \in done : q.start <= r.start}
                      IN  OSInstalled(c) = IF done = {} THEN {}
                                           ELSE {\E r \in last : r.cloned = TRUE}
    BY DEF InstalledFollowsNewestJob
  <1> DEFINE done == {r \in heard : r.client = c /\ TRUE \in {r.erased, r.cloned}}
             last == {r \in done : \A q \in done : q.start <= r.start}
  <1>1. /\ heard \subseteq JobReports /\ HeardStored /\ OutcomesHeard
        /\ PartialFn(jobs, {q.job : q \in JobReports}, JobRow)
    BY DEF IInv, ReportIInv, TypeOK, JobIInv
  <1>2. \A r \in done : /\ r \in heard /\ r \in JobReports /\ r.client = c
                        /\ r.start # 0 /\ r.start \in Nat
                        /\ r.job \in Finished(c) /\ jobs[r.job].time = r.start
    <2> TAKE r \in done
    <2>1. /\ r \in heard /\ r \in JobReports /\ r.client = c
          /\ r.erased = TRUE \/ r.cloned = TRUE
      BY <1>1
    <2>2. r.start # 0 /\ r.start \in Nat
      BY <2>1, JobReportType DEF Regular
    <2>3. /\ r.job \in DOMAIN jobs /\ jobs[r.job].client = c /\ jobs[r.job].time = r.start
          /\ jobs[r.job].erased \/ jobs[r.job].cloned
      BY <1>1, <2>1 DEF HeardStored
    <2>4. QED
      BY <2>1, <2>2, <2>3 DEF Finished
  <1>3. \A r \in heard, s \in heard : r.job = s.job => r.client = s.client
    BY <1>1, JobAssumption
  <1>4. \A j \in Finished(c) : \E r \in done : r.job = j
    <2> TAKE j \in Finished(c)
    <2>1. j \in DOMAIN jobs /\ jobs[j].client = c /\ (jobs[j].erased \/ jobs[j].cloned)
      BY DEF Finished
    <2>2. PICK r \in heard : r.job = j /\ (r.erased = TRUE \/ r.cloned = TRUE)
      BY <1>1, <2>1 DEF OutcomesHeard
    <2>3. r.client = c
      BY <1>1, <2>1, <2>2 DEF HeardStored
    <2>4. QED
      BY <2>2, <2>3
  <1>5. CASE done = {}
    <2>1. Finished(c) = {}
      BY <1>4, <1>5
    <2>2. OSInstalled(c) = {}
      BY <2>1 DEF OSInstalled, Newest
    <2>3. QED
      BY <1>5, <2>2
  <1>6. CASE done # {}
    <2>1. IsFiniteSet(done) /\ done \subseteq JobReports
      BY <1>1, ReportAssumption, FS_Subset
    <2> HIDE DEF done
    <2>2. PICK r \in done : \A q \in done : q.start <= r.start
      BY <1>6, <2>1, LastExists
    <2>3. \A q \in done : q.start = r.start => q.job = r.job
      BY <1>2, <2>2, JobAssumption
    <2>4. \A q \in last : q \in done /\ q.start = r.start /\ q.job = r.job
      BY <1>2, <2>2, <2>3
    <2>5. Newest(jobs, Finished(c)) = {r.job}
      <3>1. \A k \in Finished(c) : jobs[k].time <= jobs[r.job].time
        BY <1>2, <1>4, <2>2
      <3>2. ASSUME NEW j \in Newest(jobs, Finished(c)) PROVE j = r.job
        <4>1. PICK q \in done : q.job = j
          BY <1>4, <3>2 DEF Newest
        <4>2. jobs[r.job].time <= jobs[j].time
          BY <1>2, <3>2 DEF Newest
        <4>3. q.start = r.start
          BY <1>2, <2>2, <4>1, <4>2
        <4>4. QED
          BY <2>3, <4>1, <4>3
      <3>3. r.job \in Newest(jobs, Finished(c))
        BY <1>2, <3>1 DEF Newest
      <3>4. QED
        BY <3>2, <3>3
    <2>6. OSInstalled(c) = {jobs[r.job].cloned \/ ~jobs[r.job].erased}
      BY <2>5 DEF OSInstalled
    <2>7. r.job \in DOMAIN jobs /\ (jobs[r.job].erased \/ jobs[r.job].cloned)
      BY <1>2 DEF Finished
    <2>8. (\E s \in last : s.cloned = TRUE) => jobs[r.job].cloned
      <3>1. ASSUME NEW s \in last, s.cloned = TRUE PROVE jobs[r.job].cloned
        <4>1. s \in heard /\ s.client = c /\ s.job = r.job
          BY <1>2, <2>4
        <4>2. QED
          BY <1>1, <3>1, <4>1 DEF HeardStored
      <3>2. QED
        BY <3>1
    <2>9. jobs[r.job].cloned => \E s \in last : s.cloned = TRUE
      <3>1. ASSUME jobs[r.job].cloned PROVE \E s \in last : s.cloned = TRUE
        <4>1. PICK s \in heard : s.job = r.job /\ s.cloned = TRUE
          BY <1>1, <2>7, <3>1 DEF OutcomesHeard
        <4>2. s.client = c
          BY <1>2, <1>3, <4>1
        <4>3. s \in done
          BY <4>1, <4>2 DEF done
        <4>4. s.start = r.start
          BY <1>2, <4>1, <4>3, JobAssumption
        <4>5. s \in last
          BY <2>2, <4>3, <4>4
        <4>6. QED
          BY <4>1, <4>5
      <3>2. QED
        BY <3>1
    <2>10. jobs[r.job].cloned \in BOOLEAN /\ jobs[r.job].erased \in BOOLEAN
      BY <1>1, <2>7 DEF PartialFn, JobRow
    <2>11. (jobs[r.job].cloned \/ ~jobs[r.job].erased) = (\E s \in last : s.cloned = TRUE)
      BY <2>7, <2>8, <2>9, <2>10
    <2>12. OSInstalled(c) = IF done = {} THEN {} ELSE {\E s \in last : s.cloned = TRUE}
      BY <1>6, <2>6, <2>11, Zenon
    <2>13. QED
      BY <2>12 DEF done
  <1>7. QED
    BY <1>5, <1>6

\* The inventory shows what the job that started last has left.
THEOREM InstalledHolds == Spec => []InstalledFollowsNewestJob
  BY NewestShown, Inductive, PTL
=============================================================================
