--------------------------- MODULE ClientReports ---------------------------
(***************************************************************************)
(* What clients report of themselves: the hardware and health reports of   *)
(* the Linux client, the report of the Windows client, the outcome of jobs *)
(* and the pages that combine them.  Reports may arrive more than once and *)
(* in any order.  Every handler runs one transaction that holds the row of *)
(* its client in ids, so a handler is one step; one that fails anywhere is *)
(* rolled back and changes nothing.                                        *)
(* A field is represented by whether it is known.                          *)
(***************************************************************************)
EXTENDS Naturals, FiniteSets

CONSTANTS Clients,         \* clients with a row in ids
          Checks,          \* health checks that may be sent
          HardwareReports, \* hardware reports of Linux clients
          WindowsReports,  \* reports of Windows clients
          JobReports,      \* reports on jobs
          Fresh,           \* transaction ids uuid.NewV7 may return
          None,            \* no client, no transaction, NULL
          MaxTime          \* bound of the model's clock

\* tag and serial are the clients they belong to, None when there is none.
Named         == Clients \cup {None}
HealthCheck   == [tx : STRING, tag : Named, tpm : BOOLEAN, bios : BOOLEAN]
Hardware      == [tx : STRING, serial : Named, tpm : BOOLEAN, bios : BOOLEAN,
                  battery : BOOLEAN]
WindowsReport == [tag : Named, serial : Named, tpm : BOOLEAN, bios : BOOLEAN,
                  memory : BOOLEAN, disk : BOOLEAN, battery : BOOLEAN, name : BOOLEAN]

\* start 0: no start time; erased, cloned, image may be left out.  A report that
\* leaves clone_master out is one that says FALSE.
JobReport == [job : STRING, client : Named, start : Nat, erased : BOOLEAN \cup {None},
              cloned : BOOLEAN \cup {None}, master : BOOLEAN, image : STRING \cup {None}]

Linux == {r.tx : r \in Checks \cup HardwareReports}

ASSUME ClientAssumption == None \notin Clients /\ None \notin BOOLEAN
ASSUME ReportAssumption ==
    /\ Checks \subseteq HealthCheck /\ HardwareReports \subseteq Hardware
    /\ WindowsReports \subseteq WindowsReport /\ JobReports \subseteq JobReport
    /\ IsFiniteSet(JobReports)
\* The server gives out transaction ids, each once, and tells nobody those it
\* makes up for Windows reports.  Nothing makes a Linux client keep the id it was
\* given to itself, or use one machine's tag and serial number under it.
ASSUME TxAssumption == Fresh \cap Linux = {} /\ None \notin Fresh \cup Linux
\* A job is one client's, it has one start, and a client runs one at a time.
ASSUME JobAssumption ==
    \A q, r \in JobReports :
        /\ q.job = r.job => q.client = r.client
        /\ q.start # 0 /\ r.start # 0 /\ q.client = r.client =>
              (q.job = r.job <=> q.start = r.start)
ASSUME TimeAssumption == MaxTime \in Nat

VARIABLES hardware,  \* hardware_data: client -> row
          osInfo,    \* os_info: client -> row
          checked,   \* client_health: client -> last_hardware_check is known
          firmware,  \* historical_firmware_data: transaction -> row
          disk, memory, battery, \* the other histories: transaction -> client
          jobs,      \* jobstats: job -> row
          refreshed, \* images of static_image_names whose last_updated was set
          clock,
          used,      \* ids uuid.NewV7 has returned
          agreed,    \* of those, the ones of reports whose tag and serial agree
          heard      \* reports on jobs that were stored

machine == <<hardware, osInfo, checked, firmware, disk, memory, battery, used, agreed>>
job     == <<jobs, refreshed, heard>>
vars    == <<machine, job, clock>>

\* A row of hardware_data or os_info may have been written last by an inventory
\* form, whose transaction no report shares: tx is None.
HardwareRow == [tx : Linux \cup Fresh \cup {None}, tpm : BOOLEAN]
OSRow       == [tx : Fresh \cup {None}, name : BOOLEAN]
FirmwareRow == [client : Named, bios : BOOLEAN]
JobRow      == [client : Clients, time : Nat, erased : BOOLEAN, cloned : BOOLEAN,
                master : BOOLEAN, image : STRING \cup {None}]

PartialFn(f, D, R) == DOMAIN f \subseteq D /\ f \in [DOMAIN f -> R]

TypeOK ==
    /\ PartialFn(hardware, Clients, HardwareRow)
    /\ PartialFn(osInfo, Clients, OSRow)
    /\ PartialFn(checked, Clients, BOOLEAN)
    /\ PartialFn(firmware, Linux \cup Fresh, FirmwareRow)
    /\ PartialFn(disk, Linux \cup Fresh, Clients)
    /\ PartialFn(memory, Linux \cup Fresh, Clients)
    /\ PartialFn(battery, Linux \cup Fresh, Clients)
    /\ PartialFn(jobs, {r.job : r \in JobReports}, JobRow)
    /\ refreshed \subseteq {r.image : r \in JobReports} \ {None}
    /\ clock \in Nat
    /\ used \subseteq Fresh /\ agreed \subseteq used
    /\ heard \subseteq JobReports

-----------------------------------------------------------------------------
NoRows        == [x \in {} |-> None]
With(f, x, v) == [y \in DOMAIN f \cup {x} |-> IF y = x THEN v ELSE f[y]]
WithIf(b, f, x, v) == IF b THEN With(f, x, v) ELSE f

\* COALESCE(EXCLUDED.field, table.field).
Coalesce(new, old) == IF new = None THEN old ELSE new

HardwareOf(c) == IF c \in DOMAIN hardware THEN hardware[c]
                 ELSE [tx |-> None, tpm |-> FALSE]
OSOf(c)       == IF c \in DOMAIN osInfo THEN osInfo[c]
                 ELSE [tx |-> None, name |-> FALSE]

\* Fault: the column takes what the report brings.
ReportedTPM(c, x, tpm) == [HardwareOf(c) EXCEPT !.tx = x, !.tpm = tpm]

\* What the reports write to hardware_data.
ReportedHardware(c, x, tpm) == [HardwareOf(c) EXCEPT !.tx = x, !.tpm = @ \/ tpm]

\* historical_firmware_data, keyed by the transaction: a client that is not known
\* leaves the one that is.
ReportedFirmware(c, x, bios) ==
    IF x \in DOMAIN firmware
      THEN [client |-> Coalesce(c, firmware[x].client), bios |-> firmware[x].bios \/ bios]
      ELSE [client |-> c, bios |-> bios]

\* Fault: no row is looked up.
AnyClient(c) == TRUE

\* lockClientRowByTagnumber, lockClientRowBySystemSerialPGX: without a row in ids
\* the transaction is given up.
LockClientRow(c) == c \in Clients

-----------------------------------------------------------------------------
\* Linux clients.

\* UpsertClientHealthCheck.  The time of the check is the one given, or now.
UpdateClientHealthCheck(r) ==
    /\ LockClientRow(r.tag)
    /\ checked' = With(checked, r.tag, TRUE)
    /\ hardware' = With(hardware, r.tag, ReportedHardware(r.tag, r.tx, r.tpm))
    /\ firmware' = With(firmware, r.tx, ReportedFirmware(r.tag, r.tx, r.bios))
    /\ UNCHANGED <<osInfo, disk, memory, battery, used, agreed, job, clock>>

\* The histories of a hardware report; the battery's row is written when the
\* report has one.
LinuxHistories(r) ==
    /\ disk' = With(disk, r.tx, r.serial)
    /\ battery' = WithIf(r.battery, battery, r.tx, r.serial)
    /\ memory' = With(memory, r.tx, r.serial)

\* UpdateClientHardwareData.
SetClientHardwareData(r) ==
    /\ LockClientRow(r.serial)
    /\ hardware' = With(hardware, r.serial, ReportedHardware(r.serial, r.tx, r.tpm))
    /\ LinuxHistories(r)
    /\ firmware' = With(firmware, r.tx, ReportedFirmware(r.serial, r.tx, r.bios))
    /\ UNCHANGED <<osInfo, checked, used, agreed, job, clock>>

-----------------------------------------------------------------------------
\* Windows clients.

\* Fault: ids are not fresh.
AnyV7 == Fresh

\* uuid.NewV7.
NewV7 == Fresh \ used

\* Fault: the firmware of an unknown tag is left out and the rest is kept.
FirmwareIfKnown(r, x) ==
    WithIf(r.tag # None, firmware, x, ReportedFirmware(r.tag, x, r.bios))

\* The last statement goes by the tag, the others by the serial number: nothing
\* compares the two, and a tag nobody has stores the row for no client.
WindowsFirmware(r, x) == With(firmware, x, ReportedFirmware(r.tag, x, r.bios))

\* Every other statement goes by the serial number.
WindowsMachine(r, x) ==
    /\ hardware' = With(hardware, r.serial, ReportedHardware(r.serial, x, r.tpm))
    /\ checked' = With(checked, r.serial, TRUE)

\* The histories get rows when all their fields are there.
WindowsHistories(r, x) ==
    /\ memory' = WithIf(r.memory, memory, x, r.serial)
    /\ disk' = WithIf(r.disk, disk, x, r.serial)
    /\ battery' = WithIf(r.battery, battery, x, r.serial)

\* os_info takes what the report brings, known or not.
WindowsOS(r, x) == osInfo' = With(osInfo, r.serial, [tx |-> x, name |-> r.name])

\* UpdateFromWindowsJSON, under an id made for this one delivery: a report that
\* is sent again is another report.
ReceiveWindowsClientInfo(r, x) ==
    /\ x \in NewV7
    /\ used' = used \cup {x}
    /\ agreed' = IF r.tag = r.serial THEN agreed \cup {x} ELSE agreed
    /\ IF LockClientRow(r.serial)
         THEN /\ WindowsMachine(r, x) /\ WindowsHistories(r, x) /\ WindowsOS(r, x)
              /\ firmware' = WindowsFirmware(r, x)
         ELSE UNCHANGED <<hardware, osInfo, checked, firmware, disk, memory, battery>>
    /\ UNCHANGED <<job, clock>>

\* DeleteOSInfoByTagnumber: tag and serial must be those of one client.
DeleteOSInfoByTagnumber(tag, serial) ==
    /\ tag = serial
    /\ osInfo' = [c \in DOMAIN osInfo \ {tag} |-> osInfo[c]]
    /\ UNCHANGED <<hardware, checked, firmware, disk, memory, battery, used, agreed,
                   job, clock>>

\* The inventory form shares the two tables: it takes fields of hardware_data no
\* property is about, and makes a row of os_info that has no name.
UpdateInventoryHardwareData(c) ==
    /\ hardware' = With(hardware, c, [HardwareOf(c) EXCEPT !.tx = None])
    /\ UNCHANGED <<osInfo, checked, firmware, disk, memory, battery, used, agreed,
                   job, clock>>

InsertInventoryUpdate(c) ==
    /\ osInfo' = With(osInfo, c, [OSOf(c) EXCEPT !.tx = None])
    /\ UNCHANGED <<hardware, checked, firmware, disk, memory, battery, used, agreed,
                   job, clock>>

-----------------------------------------------------------------------------
\* Jobs.

\* Fault: the row keeps the time of the report instead of the job's.
ReportTime(r) == clock

\* UpdateJobStatsRequest.ToDTO: a job without a start time starts now.
JobStartTime(r) == IF r.start = 0 THEN clock ELSE r.start

JobOf(r) == IF r.job \in DOMAIN jobs THEN jobs[r.job]
            ELSE [client |-> r.client, time |-> 0, erased |-> FALSE, cloned |-> FALSE,
                  master |-> FALSE, image |-> None]

\* The row UpsertJobStats writes.  clone_master is never NULL: COALESCE takes
\* FALSE from a report that leaves it out.
ReportedJob(r) ==
    [client |-> r.client,
     time   |-> JobStartTime(r),
     erased |-> Coalesce(r.erased, JobOf(r).erased),
     cloned |-> Coalesce(r.cloned, JobOf(r).cloned),
     master |-> r.master,
     image  |-> Coalesce(r.image, JobOf(r).image)]

\* Rows of S that ORDER BY time DESC NULLS LAST may put first.
Newest(js, S) == {j \in S : \A k \in S : js[k].time <= js[j].time}

\* Fault: any job of the client counts.
MasterOrNot(js, c) == {j \in DOMAIN js : js[j].client = c}

Masters(js, c) == {j \in DOMAIN js : js[j].client = c /\ js[j].master}

\* UpsertJobStats.  The report of a master refreshes the image of the client's
\* newest master, whichever job that is.  If that one names no image the insert
\* of NULL may fail, and then the report changes nothing.
UpdateJobStats(r) ==
    /\ LockClientRow(r.client)
    /\ jobs' = With(jobs, r.job, ReportedJob(r))
    /\ IF r.master
         THEN \E n \in Newest(jobs', Masters(jobs', r.client)) :
                 refreshed' = refreshed \cup ({jobs'[n].image} \ {None})
         ELSE UNCHANGED refreshed
    /\ heard' = heard \cup {r}
    /\ UNCHANGED <<machine, clock>>

TimePasses ==
    /\ clock < MaxTime
    /\ clock' = clock + 1
    /\ UNCHANGED <<machine, job>>

-----------------------------------------------------------------------------
\* What the pages show.

Finished(c) == {j \in DOMAIN jobs : jobs[j].client = c /\ (jobs[j].erased \/ jobs[j].cloned)}

\* os_installed of GetInventoryTableData, for a client's newest finished job; a
\* client without one has none.
OSInstalled(c) == {jobs[j].cloned \/ ~jobs[j].erased : j \in Newest(jobs, Finished(c))}

-----------------------------------------------------------------------------
Init ==
    /\ hardware = NoRows /\ osInfo = NoRows /\ checked = NoRows
    /\ firmware = NoRows /\ disk = NoRows /\ memory = NoRows /\ battery = NoRows
    /\ jobs = NoRows /\ refreshed = {} /\ heard = {}
    /\ used = {} /\ agreed = {}
    /\ clock = 1

Next ==
    \/ \E r \in Checks : UpdateClientHealthCheck(r)
    \/ \E r \in HardwareReports : SetClientHardwareData(r)
    \/ \E r \in WindowsReports, x \in Fresh : ReceiveWindowsClientInfo(r, x)
    \/ \E c, d \in Clients : DeleteOSInfoByTagnumber(c, d)
    \/ \E c \in Clients : UpdateInventoryHardwareData(c) \/ InsertInventoryUpdate(c)
    \/ \E r \in JobReports : UpdateJobStats(r)
    \/ TimePasses

Spec == Init /\ [][Next]_vars

-----------------------------------------------------------------------------
\* A report is stored whole or not at all: no row names a transaction whose
\* firmware row, the last one written, is missing, and a Linux transaction with
\* a disk, a memory or a battery has them all but the battery.
ReportsWhole ==
    /\ \A c \in DOMAIN hardware : hardware[c].tx \in DOMAIN firmware \cup {None}
    /\ \A c \in DOMAIN osInfo : osInfo[c].tx \in DOMAIN firmware \cup {None}
    /\ DOMAIN disk \cup DOMAIN memory \cup DOMAIN battery \subseteq DOMAIN firmware
    /\ DOMAIN disk \cap Linux = DOMAIN memory \cap Linux
    /\ DOMAIN battery \cap Linux \subseteq DOMAIN disk

\* The clients the rows of transaction x are stored for, firmware aside.
Reporters(x) ==
    {c \in DOMAIN hardware : hardware[c].tx = x} \cup {c \in DOMAIN osInfo : osInfo[c].tx = x}
    \cup {disk[y] : y \in DOMAIN disk \cap {x}} \cup {memory[y] : y \in DOMAIN memory \cap {x}}
    \cup {battery[y] : y \in DOMAIN battery \cap {x}}

\* A report under x names c, as the machine that sends it.
Given(x, c) ==
    \/ \E r \in Checks : r.tx = x /\ r.tag = c
    \/ \E r \in HardwareReports : r.tx = x /\ r.serial = c

\* Nothing is stored for a client under an id no report of that client came with,
\* in whatever order and however often the rounds of several clients arrive: a
\* Linux id that one client uses holds that client's rows only, and one of a
\* Windows report those of one serial number, with the firmware as well if the
\* tag is of the same client (post.go:1750, update-repo.go:1365-1832, 2165-2563).
StoredForReporter ==
    \A x \in DOMAIN firmware :
        /\ x \in Linux => \A c \in Reporters(x) \cup {firmware[x].client} : Given(x, c)
        /\ x \in Fresh => \A c, d \in Reporters(x) : c = d
        /\ x \in agreed => Reporters(x) \subseteq {firmware[x].client}

\* Late, repeated and partial reports of either operating system, and inventory
\* forms between them, never make a TPM or BIOS version unknown again.
KnownStaysKnown ==
    [][/\ \A c \in DOMAIN hardware : hardware[c].tpm =>
             c \in DOMAIN hardware' /\ hardware'[c].tpm
       /\ \A x \in DOMAIN firmware : firmware[x].bios =>
             x \in DOMAIN firmware' /\ firmware'[x].bios]_vars

\* Every report on a job of c that was stored gave its start, and none took back
\* an outcome.
Regular(c) == \A r \in heard : r.client = c =>
                 r.start # 0 /\ r.erased # FALSE /\ r.cloned # FALSE

\* Whatever the order in which the reports of regular jobs arrive, the inventory
\* shows what the job that started last has left on the disk.
InstalledFollowsNewestJob ==
    \A c \in Clients : Regular(c) =>
        LET done == {r \in heard : r.client = c /\ TRUE \in {r.erased, r.cloned}}
            last == {r \in done : \A q \in done : q.start <= r.start}
        IN  OSInstalled(c) = IF done = {} THEN {}
                             ELSE {\E r \in last : r.cloned = TRUE}

\* Only images that a master job of the fleet made are marked as updated, even
\* when reports on older masters arrive after other clones of the same client.
OnlyMastersRefresh ==
    \A i \in refreshed : \E q, r \in heard :
        q.job = r.job /\ q.master /\ r.image = i

-----------------------------------------------------------------------------
\* What makes StoredForReporter inductive: it must hold of ids without firmware,
\* and an id that was not returned yet stores no row.
LinuxOwned ==
    \A x \in Linux : /\ \A c \in Reporters(x) : Given(x, c)
                     /\ x \in DOMAIN firmware => Given(x, firmware[x].client)

FreshUnused == \A x \in Fresh \ used : Reporters(x) = {} /\ x \notin DOMAIN firmware

FreshOwned ==
    \A x \in Fresh \cap DOMAIN firmware :
        /\ \A c, d \in Reporters(x) : c = d
        /\ x \in agreed => Reporters(x) \subseteq {firmware[x].client}

ReportIInv == TypeOK /\ ReportsWhole /\ LinuxOwned /\ FreshUnused /\ FreshOwned

\* What makes the properties of jobs inductive: a row says what the reports on
\* its job have said.
RowsHeard ==
    \A j \in DOMAIN jobs :
        /\ jobs[j].master => \E r \in heard : r.job = j /\ r.master
        /\ jobs[j].image # None => \E r \in heard : r.job = j /\ r.image = jobs[j].image
        /\ \E r \in heard : r.job = j

HeardStored ==
    \A r \in heard : /\ r.job \in DOMAIN jobs /\ jobs[r.job].client = r.client
                     /\ Regular(r.client) =>
                           /\ jobs[r.job].time = r.start
                           /\ r.erased = TRUE => jobs[r.job].erased
                           /\ r.cloned = TRUE => jobs[r.job].cloned

OutcomesHeard ==
    \A j \in DOMAIN jobs :
        /\ jobs[j].erased => \E r \in heard : r.job = j /\ r.erased = TRUE
        /\ jobs[j].cloned => \E r \in heard : r.job = j /\ r.cloned = TRUE

JobIInv == RowsHeard /\ HeardStored /\ OutcomesHeard
=============================================================================
