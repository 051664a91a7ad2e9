---------------------------- MODULE TemplateStore ----------------------------
(* The template store of tinymachine-fork: snapshots are saved file by file  *)
(* under <lang>/v<n>/<name> (snapshot.rs) and listed, once saved, in         *)
(* registry.json (template_registry.rs).  A session opens the store and      *)
(* either stores one capture (FreshBootBackend::init, build_snapshot) or     *)
(* loads the latest version (KvmForkBackend::init).  Sessions belong to      *)
(* different processes: nothing on disk locks them out of each other, and    *)
(* each can die, or give up on an I/O error, between any two file operations.*)
EXTENDS Naturals, Sequences, SequencesExt

CONSTANTS Session,    \* processes that use the store, one session at a time
          Variant,    \* templates: language and name
          Capture,    \* snapshots taken of booted VMs
          Optional,   \* Optional[c]: which of xsave, net, irqchips capture c has
          MaxVersion, \* bound: version numbers
          Absent,     \* no such file
          Torn        \* a file truncated and not yet (or never) written

OptionalParts == {"xsave", "net", "irqchips"}
Mandatory == {"mem", "state", "meta"}
SnapFile == Mandatory \cup OptionalParts

StoreAssumption ==
    /\ Optional \in [Capture -> SUBSET OptionalParts]
    /\ Variant # {} /\ MaxVersion \in Nat \ {0}
    /\ Absent \notin Capture /\ Torn \notin Capture /\ Absent # Torn

Version == 1 .. MaxVersion
Template == Variant \X Version
Content == Capture \cup {Absent, Torn}

VARIABLES disk,      \* what each file of each version directory holds
          listed,    \* registry.json: the templates it lists
          broken,    \* registry.json is truncated: it does not parse
          captured,  \* captures taken so far
          session,   \* where each session is, see Fresh
          overlapped \* history: two stores have been under way at once

vars == <<disk, listed, broken, captured, session, overlapped>>

Steps == {"idle", "open", "write", "fill", "list", "listing", "load", "loaded"}
Storing(s) == session[s].at \in {"write", "fill", "list", "listing"}

(* known: TemplateRegistry::templates; goal: the template being stored or    *)
(* loaded; source: the capture being stored; part: how many files are done;  *)
(* got: what Snapshot::load has read so far.                                 *)
Nothing == [f \in SnapFile |-> Absent]
Fresh == [at |-> "idle", known |-> {}, goal |-> CHOOSE t \in Template : TRUE,
          source |-> Absent, part |-> 0, got |-> Nothing]

(* Snapshot::save writes a capture's files in this order, and load reads     *)
(* them in the other: mem is hashed once meta.json is known.                 *)
With(q, f, c) == IF f \in Optional[c] THEN Append(q, f) ELSE q
Saved(c) == With(With(With(<<"mem", "state", "meta">>, "xsave", c), "net", c), "irqchips", c)
Read == <<"state", "meta", "mem", "xsave", "irqchips", "net">>

(* latest_version, 0 if there is none *)
Latest(templates, v) ==
    LET numbers == {n \in Version : <<v, n>> \in templates}
    IN IF numbers = {} THEN 0 ELSE CHOOSE n \in numbers : \A o \in numbers : o <= n

Init ==
    /\ disk = [t \in Template |-> Nothing]
    /\ listed = {} /\ broken = FALSE
    /\ captured = {}
    /\ session = [s \in Session |-> Fresh]
    /\ overlapped = FALSE

(* TemplateRegistry::open: a registry.json that does not parse is an error.  *)
Open(s) ==
    /\ session[s].at = "idle" /\ ~broken
    /\ session' = [session EXCEPT ![s].at = "open", ![s].known = listed]
    /\ UNCHANGED <<disk, listed, broken, captured, overlapped>>

-----------------------------------------------------------------------------
(* store_snapshot *)

(* next_version comes from the templates known at open.  Two stores overlap  *)
(* when one begins with what it knew before the other was listed.            *)
BeginStore(s, v, c) ==
    /\ session[s].at = "open" /\ c \notin captured
    /\ Latest(session[s].known, v) < MaxVersion
    /\ session' = [session EXCEPT
           ![s].at = "write", ![s].source = c,
           ![s].goal = <<v, Latest(session[s].known, v) + 1>>]
    /\ captured' = captured \cup {c}
    /\ overlapped' = (\/ overlapped \/ session[s].known # listed
                      \/ \E o \in Session : Storing(o))
    /\ UNCHANGED <<disk, listed, broken>>

NextFile(s) == Saved(session[s].source)[session[s].part + 1]

(* The next file of the capture is created, or truncated if an earlier store *)
(* that was never listed left one. *)
Truncate(s) ==
    /\ session[s].at = "write"
    /\ disk' = [disk EXCEPT ![session[s].goal][NextFile(s)] = Torn]
    /\ session' = [session EXCEPT ![s].at = "fill"]
    /\ UNCHANGED <<listed, broken, captured, overlapped>>

(* Mutated: the template is listed before its last file is written. *)
Fill_ListsEarly(s) ==
    /\ session[s].at = "fill"
    /\ disk' = [disk EXCEPT ![session[s].goal][NextFile(s)] = session[s].source]
    /\ session' = [session EXCEPT
           ![s].part = @ + 1,
           ![s].at = IF session[s].part + 2 = Len(Saved(session[s].source))
                     THEN "list" ELSE "write"]
    /\ UNCHANGED <<listed, broken, captured, overlapped>>

(* Mutated: the save goes on after the last file. *)
Fill_Overruns(s) ==
    /\ session[s].at = "fill"
    /\ disk' = [disk EXCEPT ![session[s].goal][NextFile(s)] = session[s].source]
    /\ session' = [session EXCEPT
           ![s].part = @ + 1,
           ![s].at = IF session[s].part = Len(Saved(session[s].source))
                     THEN "list" ELSE "write"]
    /\ UNCHANGED <<listed, broken, captured, overlapped>>

(* ... and written and synced. *)
Fill(s) ==
    /\ session[s].at = "fill"
    /\ disk' = [disk EXCEPT ![session[s].goal][NextFile(s)] = session[s].source]
    /\ session' = [session EXCEPT
           ![s].part = @ + 1,
           ![s].at = IF session[s].part + 1 = Len(Saved(session[s].source))
                     THEN "list" ELSE "write"]
    /\ UNCHANGED <<listed, broken, captured, overlapped>>

(* save_registry writes what this session knows with fs::write, which        *)
(* truncates the file first. *)
List(s) ==
    /\ session[s].at = "list"
    /\ session' = [session EXCEPT ![s].at = "listing", ![s].known = @ \cup {session[s].goal}]
    /\ broken' = TRUE
    /\ UNCHANGED <<disk, listed, captured, overlapped>>

Listed(s) ==
    /\ session[s].at = "listing"
    /\ listed' = session[s].known /\ broken' = FALSE
    /\ session' = [session EXCEPT ![s] = Fresh]
    /\ UNCHANGED <<disk, captured, overlapped>>

(* An error on the way, or the end of the process. *)
GiveUp(s) ==
    /\ session[s].at # "idle"
    /\ session' = [session EXCEPT ![s] = Fresh]
    /\ UNCHANGED <<disk, listed, broken, captured, overlapped>>

-----------------------------------------------------------------------------
(* load_snapshot *)

BeginLoad(s, v) ==
    /\ session[s].at = "open" /\ Latest(session[s].known, v) > 0
    /\ session' = [session EXCEPT ![s].at = "load",
                                  ![s].goal = <<v, Latest(session[s].known, v)>>]
    /\ UNCHANGED <<disk, listed, broken, captured, overlapped>>

(* Which contents of file f load accepts after what it has read: a mandatory *)
(* file must parse, mem must match the checksum in meta.json, a binary file  *)
(* must have its full length; has_xsave in meta.json is not consulted.       *)
Accepted(f, found, before) ==
    CASE f \in {"state", "meta"} -> found \notin {Absent, Torn}
      [] f = "mem" -> found = before["meta"]
      [] f \in {"xsave", "irqchips"} -> found # Torn
      [] f = "net" -> TRUE

(* virtio_net.json that does not parse counts as absent. *)
ReadNext(s) ==
    /\ session[s].at = "load"
    /\ LET f == Read[session[s].part + 1]
           found == disk[session[s].goal][f]
       IN session' = IF Accepted(f, found, session[s].got)
                     THEN [session EXCEPT
                              ![s].got[f] = IF found = Torn THEN Absent ELSE found,
                              ![s].part = @ + 1,
                              ![s].at = IF f = Last(Read) THEN "loaded" ELSE @]
                     ELSE [session EXCEPT ![s] = Fresh]
    /\ UNCHANGED <<disk, listed, broken, captured, overlapped>>

Next ==
    \E s \in Session :
        \/ Open(s) \/ Truncate(s) \/ Fill(s) \/ List(s) \/ Listed(s)
        \/ GiveUp(s) \/ ReadNext(s)
        \/ \E v \in Variant : BeginLoad(s, v) \/ \E c \in Capture : BeginStore(s, v, c)

Spec == Init /\ [][Next]_vars

-----------------------------------------------------------------------------
(* A store has a file left to write while it writes, and what a session      *)
(* stores or loads is a template.                                            *)
TypeOK ==
    /\ disk \in [Template -> [SnapFile -> Content]]
    /\ listed \subseteq Template /\ broken \in BOOLEAN
    /\ captured \subseteq Capture
    /\ overlapped \in BOOLEAN
    /\ session \in [Session ->
          [at : Steps, known : SUBSET Template, goal : Template,
           source : Capture \cup {Absent}, part : 0 .. 6,
           got : [SnapFile -> Content \ {Torn}]]]
    /\ \A s \in Session : session[s].at \in {"write", "fill"} =>
          session[s].part < Len(Saved(session[s].source))

(* The files that belong to capture c *)
PartsOf(c) == Mandatory \cup Optional[c]

(* A template that registry.json lists is complete on disk and all of one    *)
(* capture, whatever gave up or died before: store_snapshot lists it after   *)
(* its last file, and never writes to its directory again.                   *)
ListedComplete ==
    ~overlapped =>
        \A t \in listed : \E c \in Capture : \A f \in PartsOf(c) : disk[t][f] = c

(* What load_snapshot returns is of one capture, in every part that capture  *)
(* has, while another process stores and crashes.  Even when stores overlap, *)
(* load never pairs the memory of one capture with the load address, size    *)
(* and kernel of another.                                                    *)
LoadedWhole ==
    \A s \in Session : session[s].at = "loaded" =>
        /\ session[s].got["mem"] = session[s].got["meta"]
        /\ ~overlapped => \A f \in PartsOf(session[s].got["meta"]) :
                             session[s].got[f] = session[s].got["meta"]

(* The mem file under a loaded snapshot is mapped by every fork for as long  *)
(* as the engine lives: nobody truncates or rewrites it.                     *)
MappedMemoryKept ==
    \A s \in Session : session[s].at = "loaded" /\ ~overlapped =>
        disk[session[s].goal]["mem"] = session[s].got["meta"]

(* A template stays listed once it was: storing one variant's does not lose  *)
(* another's.                                                                *)
KeepsListed == ~overlapped' => listed \subseteq listed'
ListingGrows == [][KeepsListed]_vars
=============================================================================
