----------------------------- MODULE Configurator -----------------------------
(***************************************************************************)
(* The configurator of a host agent: the texts of its two netplan files    *)
(* and of its part of the hosts file, the files, and the VLAN interfaces   *)
(* that netplan creates from them.                                         *)
(*                                                                         *)
(* The worker thread runs the calls of a document one by one, and          *)
(* applyNetplanSlot as one of them; the form, in the thread of the user    *)
(* interface, writes the same members without a lock.  So the state of     *)
(* each thread is the sequence of steps it still has to take.  The agent   *)
(* may be killed and started again at any time.                            *)
(*                                                                         *)
(* Of a netplan text only the VLAN it names is kept, of a hosts text its   *)
(* identity.  A file that is opened for writing is empty until it has been *)
(* written.                                                                *)
(***************************************************************************)
EXTENDS Integers, Sequences

CONSTANTS
  Vlans,            \* names of VLAN interfaces
  NoVlan,           \* of an empty text, and ~m_vlanInterface: no name
  HostLists,        \* texts of the part of the hosts file
  MaxEdits,         \* bound: edits accepted in the form
  MaxRestarts,      \* bound: restarts of the agent
  MaxFailures       \* bound: files that cannot be opened and failures of netplan

Interfaces == {1, 2}
Names      == Vlans \cup {NoVlan}

ASSUME ConfiguratorAssumption ==
  NoVlan \notin Vlans /\ MaxEdits \in Nat /\ MaxRestarts \in Nat
  /\ MaxFailures \in Nat

VARIABLES
  netplan,          \* m_netplan1, m_netplan2
  vlanInterface,    \* m_vlanInterface1, m_vlanInterface2: the links to delete
  hosts,            \* m_hosts
  file, hostsFile,  \* the files; of the hosts file, the lines of others and the blocks
  links,            \* VLAN interfaces of the host
  worker, form,     \* steps the two threads have to take
  applySignals,     \* applyNetplanSignals the form has sent to the worker
  sent,             \* history: what the document the worker runs asks for
  disturbed,        \* history: the form wrote, or a file could not be opened, since
  forgotten,        \* history: links whose name was dropped before it was used
  edits, restarts, failures

bounds == <<edits, restarts, failures>>
texts  == <<netplan, vlanInterface, hosts>>
disk   == <<file, hostsFile, links>>
vars   == <<texts, disk, worker, form, applySignals, sent, disturbed, forgotten, bounds>>

Named(f) == {f[n] : n \in Interfaces} \ {NoVlan}
Nothing  == [vlans |-> [n \in Interfaces |-> NoVlan], hosts |-> {}]

Init ==
  /\ netplan = [n \in Interfaces |-> NoVlan]
  /\ vlanInterface = [n \in Interfaces |-> NoVlan]
  /\ hosts = {}
  /\ file = [n \in Interfaces |-> NoVlan]
  /\ hostsFile = [own |-> TRUE, blocks |-> <<>>]
  /\ links = {}
  /\ worker = <<>> /\ form = <<>> /\ applySignals = 0
  /\ sent = Nothing /\ disturbed = FALSE /\ forgotten = {}
  /\ edits = 0 /\ restarts = 0 /\ failures = 0

\* The thread is at such a step.
At(thread, do) == thread # <<>> /\ Head(thread).do = do

-----------------------------------------------------------------------------
(* Setting the texts. *)

\* Variant: the name is read after the assignment.
SetNewName(n, old, new) ==
  /\ vlanInterface' = [vlanInterface EXCEPT ![n] = new]
  /\ netplan' = [netplan EXCEPT ![n] = new]
  /\ forgotten' = forgotten \cup
       (({vlanInterface[n], netplan[n]} \ {old, NoVlan}) \cap (links \cup Named(file)))

\* The interface named in the old text is to be deleted, the name before it is
\* dropped.  (Old is not the text of now if another thread has set it meanwhile.)
SetNetplan(n, old, new) ==
  /\ vlanInterface' = [vlanInterface EXCEPT ![n] = old]
  /\ netplan' = [netplan EXCEPT ![n] = new]
  /\ forgotten' = forgotten \cup
       (({vlanInterface[n], netplan[n]} \ {old, NoVlan}) \cap (links \cup Named(file)))

\* setNetplan as each thread runs it: the old text is matched, then the name found in
\* it and the new text are assigned.
Matched(s) == [do |-> "assign", n |-> s.n, vlan |-> s.vlan, old |-> netplan[s.n]]

handleSetupInterface ==
  /\ At(worker, "match")
  /\ worker' = <<Matched(Head(worker))>> \o Tail(worker)
  /\ UNCHANGED <<texts, disk, form, applySignals, sent, disturbed, forgotten,
                 bounds>>

WorkerAssigns ==
  /\ At(worker, "assign")
  /\ SetNetplan(Head(worker).n, Head(worker).old, Head(worker).vlan)
  /\ worker' = Tail(worker)
  /\ UNCHANGED <<hosts, disk, form, applySignals, sent, disturbed, bounds>>

\* Variant: the text stays.
ClearNothing(n) == netplan' = netplan

\* Clearing leaves m_vlanInterface alone: the name in the text is dropped.
Clear(n) == netplan' = [netplan EXCEPT ![n] = NoVlan]

handleClearInterface ==
  /\ At(worker, "clear")
  /\ LET n == Head(worker).n
     IN  /\ Clear(n)
         /\ forgotten' = forgotten \cup
              (({netplan[n]} \ {NoVlan, vlanInterface[n]}) \cap (links \cup Named(file)))
  /\ worker' = Tail(worker)
  /\ UNCHANGED <<vlanInterface, hosts, disk, form, applySignals, sent, disturbed,
                 bounds>>

handleSetupHosts ==
  /\ At(worker, "hosts")
  /\ hosts' = Head(worker).hosts
  /\ worker' = Tail(worker)
  /\ UNCHANGED <<netplan, vlanInterface, disk, form, applySignals, sent, disturbed,
                 forgotten, bounds>>

-----------------------------------------------------------------------------
(* applyNetplanSlot: save the three files, delete the old links, apply. *)

ApplySteps == <<[do |-> "open", n |-> 1], [do |-> "open", n |-> 2],
                [do |-> "openHosts"], [do |-> "execute"]>>

\* The call of a document: the slot runs at once.
handleApplyNetplan ==
  /\ At(worker, "apply")
  /\ worker' = ApplySteps \o Tail(worker)
  /\ UNCHANGED <<texts, disk, form, applySignals, sent, disturbed, forgotten,
                 bounds>>

\* The signal of the form: the slot runs when the worker is free.
applyNetplanSlot ==
  /\ worker = <<>> /\ applySignals > 0
  /\ applySignals' = applySignals - 1
  /\ worker' = ApplySteps
  /\ disturbed' = TRUE
  /\ UNCHANGED <<texts, disk, form, sent, forgotten, bounds>>

Fail == failures < MaxFailures /\ failures' = failures + 1

OpenFile ==
  /\ At(worker, "open")
  /\ LET n == Head(worker).n
     IN  \/ /\ file' = [file EXCEPT ![n] = NoVlan]
            /\ worker' = <<[do |-> "write", n |-> n]>> \o Tail(worker)
            /\ UNCHANGED <<disturbed, failures>>
         \/ /\ Fail
            /\ worker' = Tail(worker)
            /\ disturbed' = TRUE
            /\ UNCHANGED file
  /\ UNCHANGED <<texts, hostsFile, links, form, applySignals, sent, forgotten,
                 edits, restarts>>

WriteFile ==
  /\ At(worker, "write")
  /\ file' = [file EXCEPT ![Head(worker).n] = netplan[Head(worker).n]]
  /\ worker' = Tail(worker)
  /\ UNCHANGED <<texts, hostsFile, links, form, applySignals, sent, disturbed,
                 forgotten, bounds>>

\* Variant: the block is appended although there is one.
WithNextBlock(text, data) == [text EXCEPT !.blocks = Append(@, data)]

\* What saveHosts makes of the text of the hosts file: from the first begin tag to
\* the last end tag it is replaced, without a tag the block is appended.  The first
\* tag is never at position 0, an appended block begins with a new line.
WithBlock(text, data) == [text EXCEPT !.blocks = <<data>>]

OpenHosts ==
  /\ At(worker, "openHosts")
  /\ \/ /\ hostsFile' = [own |-> FALSE, blocks |-> <<>>]
        /\ worker' = <<[do |-> "writeHosts", text |-> WithBlock(hostsFile, hosts)]>>
                       \o Tail(worker)
        /\ UNCHANGED <<disturbed, failures>>
     \/ /\ Fail
        /\ worker' = Tail(worker)
        /\ disturbed' = TRUE
        /\ UNCHANGED hostsFile
  /\ UNCHANGED <<texts, file, links, form, applySignals, sent, forgotten,
                 edits, restarts>>

WriteHosts ==
  /\ At(worker, "writeHosts")
  /\ hostsFile' = Head(worker).text
  /\ worker' = Tail(worker)
  /\ UNCHANGED <<texts, file, links, form, applySignals, sent, disturbed, forgotten,
                 bounds>>

\* Variant: the second interface is overlooked.
FirstToDelete == {vlanInterface[1]} \ {NoVlan}

ToDelete == Named(vlanInterface)

\* The links of the names are deleted, if there are such, then netplan creates those
\* of the files, if it does not fail.
execute ==
  /\ At(worker, "execute")
  /\ \/ links' = (links \ ToDelete) \cup Named(file) /\ UNCHANGED failures
     \/ links' = links \ ToDelete /\ Fail
  /\ worker' = Tail(worker)
  /\ UNCHANGED <<texts, file, hostsFile, form, applySignals, sent, disturbed,
                 forgotten, edits, restarts>>

-----------------------------------------------------------------------------
(* Documents, the form, restarts. *)

\* The engine sends a host all four calls in one document.
ReceiveDocument ==
  /\ worker = <<>>
  /\ \E v \in Vlans, w \in Names, l \in HostLists :
       /\ v # w
       /\ worker' = << [do |-> "match", n |-> 1, vlan |-> v],
                       IF w = NoVlan THEN [do |-> "clear", n |-> 2]
                       ELSE [do |-> "match", n |-> 2, vlan |-> w],
                       [do |-> "hosts", hosts |-> l], [do |-> "apply"] >>
       /\ sent' = [vlans |-> <<v, w>>, hosts |-> l]
  /\ disturbed' = (form # <<>>)
  /\ UNCHANGED <<texts, disk, form, applySignals, forgotten, bounds>>

\* Accept: both texts, the hosts, the signal.
on_pbAccept_clicked ==
  /\ form = <<>> /\ edits < MaxEdits
  /\ \E v, w \in Names, l \in HostLists :
       form' = << [do |-> "match", n |-> 1, vlan |-> v], [do |-> "match", n |-> 2, vlan |-> w],
                  [do |-> "hosts", hosts |-> l], [do |-> "emit"] >>
  /\ edits' = edits + 1
  /\ disturbed' = TRUE
  /\ UNCHANGED <<texts, disk, worker, applySignals, sent, forgotten, restarts,
                 failures>>

FormMatches ==
  /\ At(form, "match")
  /\ form' = <<Matched(Head(form))>> \o Tail(form)
  /\ UNCHANGED <<texts, disk, worker, applySignals, sent, disturbed, forgotten,
                 bounds>>

FormAssigns ==
  /\ At(form, "assign")
  /\ SetNetplan(Head(form).n, Head(form).old, Head(form).vlan)
  /\ form' = Tail(form)
  /\ UNCHANGED <<hosts, disk, worker, applySignals, sent, disturbed, bounds>>

FormSetsHosts ==
  /\ At(form, "hosts")
  /\ hosts' = Head(form).hosts
  /\ form' = Tail(form)
  /\ UNCHANGED <<netplan, vlanInterface, disk, worker, applySignals, sent, disturbed,
                 forgotten, bounds>>

FormEmits ==
  /\ At(form, "emit")
  /\ applySignals' = applySignals + 1
  /\ form' = Tail(form)
  /\ UNCHANGED <<texts, disk, worker, sent, disturbed, forgotten, bounds>>

\* The agent stops, wherever it is, and the next one starts from the files.
Restart ==
  /\ restarts < MaxRestarts
  /\ restarts' = restarts + 1
  /\ netplan' = file
  /\ vlanInterface' = [n \in Interfaces |-> NoVlan]
  /\ hosts' = IF hostsFile.blocks = <<>> THEN {} ELSE Head(hostsFile.blocks)
  /\ worker' = <<>> /\ form' = <<>> /\ applySignals' = 0
  /\ sent' = Nothing /\ disturbed' = FALSE
  /\ forgotten' = forgotten \cup (links \ Named(file))
  /\ UNCHANGED <<disk, edits, failures>>

Next ==
  \/ handleSetupInterface \/ WorkerAssigns \/ handleClearInterface
  \/ handleSetupHosts \/ handleApplyNetplan \/ applyNetplanSlot
  \/ OpenFile \/ WriteFile \/ OpenHosts \/ WriteHosts \/ execute
  \/ ReceiveDocument
  \/ on_pbAccept_clicked \/ FormMatches \/ FormAssigns \/ FormSetsHosts \/ FormEmits
  \/ Restart

Spec == Init /\ [][Next]_vars

-----------------------------------------------------------------------------
(* Properties. *)

HostTexts == HostLists \cup {{}}
HostFiles == [own : BOOLEAN, blocks : {<<>>} \cup {<<l>> : l \in HostTexts}]
Steps ==
  [do : {"match"}, n : Interfaces, vlan : Names]
    \cup [do : {"assign"}, n : Interfaces, vlan : Names, old : Names]
    \cup [do : {"clear", "open", "write"}, n : Interfaces]
    \cup [do : {"hosts"}, hosts : HostTexts]
    \cup [do : {"writeHosts"}, text : HostFiles]
    \cup [do : {"apply", "openHosts", "execute", "emit"}]

\* The texts name VLANs, and the hosts file has at most one block.
TypeOK ==
  /\ netplan \in [Interfaces -> Names] /\ vlanInterface \in [Interfaces -> Names]
  /\ file \in [Interfaces -> Names] /\ hostsFile \in HostFiles
  /\ hosts \in HostTexts
  /\ links \subseteq Vlans /\ forgotten \subseteq Vlans
  /\ worker \in Seq(Steps) /\ form \in Seq(Steps)
  /\ applySignals \in Nat
  /\ sent \in [vlans : [Interfaces -> Names], hosts : HostTexts]
  /\ disturbed \in BOOLEAN
  /\ edits \in 0..MaxEdits /\ restarts \in 0..MaxRestarts /\ failures \in 0..MaxFailures

\* Each VLAN interface that is on the host, or that the files would create, is one
\* that the agent can still delete: it is named by a text, so that the next setup
\* finds it, or is to be deleted by the next apply.  The others were cleared, set by
\* both threads at once, set twice without an apply, or left by a killed agent.
NamesKept ==
  links \cup Named(file) \subseteq Named(netplan) \cup Named(vlanInterface) \cup forgotten

\* After an apply the host has no VLAN interface besides those of its files, except
\* forgotten ones, and one that the form has named again meanwhile.
LeftoversExplained ==
  [][execute => links' \ forgotten' \subseteq Named(file') \cup Named(netplan')]_vars

\* A document that the form does not cut into, and that finds all files writable, is
\* applied as it was sent, and does not touch the other lines of the hosts file.
AppliedAsSent ==
  [][execute /\ ~disturbed =>
       /\ file' = sent.vlans
       /\ hostsFile'.blocks = <<sent.hosts>>
       /\ restarts = 0 => hostsFile'.own]_vars

\* "Interface %2 is down!": an interface the configuration no longer has is deleted.
NoStaleLinks == [][execute => links' \subseteq Named(file')]_vars
=============================================================================
