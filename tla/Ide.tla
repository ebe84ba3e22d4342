--------------------------------- MODULE Ide ---------------------------------
(***************************************************************************)
(* The development shell behind the web IDE (src/ashell/ide-cmd.c,         *)
(* ide-webusb.c, webusb_driver.c, jerry-code.c).  The USB interrupt takes  *)
(* a receive buffer of a small pool for every packet and queues it; main   *)
(* parses what is queued and releases the buffer, in steps the interrupt   *)
(* comes between.  A "save" takes many packets: its file stays open until  *)
(* one ends with the end marker.  The other commands fit one packet.       *)
(*                                                                         *)
(* The host is external: it sends the packets of a message one after the   *)
(* other, and if it is patient waits for the device's answer, or its ACK,  *)
(* before each.  A file is the sequence of the packets saved in it.  The   *)
(* texts of the answers are left out.                                      *)
(***************************************************************************)
EXTENDS Integers, Sequences, FiniteSets, SequencesExt

CONSTANTS
  IdeBuffers, \* WEBUSB_RX_POOL_SIZE
  IdeNames,   \* file names
  IdeCommands, \* the messages of one packet the host may send, with the form of the name
  IdePackets  \* model bound: packets the host sends

ASSUME IdeAssumption ==
  /\ IdeBuffers \in Nat \ {0, 1} /\ IdePackets \in Nat /\ "none" \notin IdeNames
  /\ IdeCommands \subseteq [cmd : {"run", "stop", "rm", "mv", "boot", "ls"}, name : IdeNames, form : {"good", "cut", "open"}]

VARIABLES
  rxBuffers,  \* webusb_rx_buffers: lock, and the packet in it
  rxIndex,    \* webusb_rx_index
  rxQueue,    \* rx_queue, indexes of buffers
  ideStep,    \* what main does: "idle", "parsed" a buffer, or "unlocked" it
  parser,     \* the state, and the file of the save that is going on
  ideFiles,   \* the files there are
  bootFile,   \* the name in boot.cfg
  parsedCode, \* parsed_code: "none", "held", or "released" and still named
  host,       \* the host: patient, waiting, the save it is sending, the files it expects
  ideLost,    \* history: a packet was dropped or wiped
  ideOdd,     \* history: a write failed, an end marker was split, or a refused command went on
  ideFault    \* the undefined behaviour that ended this behaviour, or "none"

ideVars == <<rxBuffers, rxIndex, rxQueue, ideStep, parser, ideFiles, bootFile, parsedCode, host,
             ideLost, ideOdd, ideFault>>
rxVars2 == <<rxBuffers, rxIndex, rxQueue>>
deviceVars == <<parser, ideFiles, bootFile, parsedCode>>

NoPacket == [cmd |-> "wiped"]
NotThere == <<-1>>  \* no file: no packet has that number
Idle     == [state |-> "idle", file |-> "none"]
IdeOk    == ideFault = "none"
Buffers  == 0..(IdeBuffers - 1)

-----------------------------------------------------------------------------
(***************************************************************************)
(* The host, and the interrupt that takes its packets.                     *)
(***************************************************************************)
\* What a host sends next: a packet of the save it is in the middle of, or a new message.
\* "end" is how the packet ends: with the end marker, with half of it, or otherwise.  The form
\* of a file name is "good", "cut" (too long for 8.3, it is cut where it gets too long) or
\* "open" (without what must follow it).
Packets ==
  IF host.saving # "none"
  THEN [cmd : {"data"}, name : {host.saving}, form : {"good"}, end : IF host.split THEN {"tail"} ELSE {"no", "yes", "half"}]
  ELSE {[cmd |-> "save", name |-> n, form |-> "good", end |-> e] : n \in IdeNames, e \in {"no", "yes"}} \union
       {[cmd |-> c.cmd, name |-> c.name, form |-> c.form, end |-> "no"] : c \in IdeCommands}

Other(name) == IF \E n \in IdeNames : n # name THEN CHOOSE n \in IdeNames : n # name ELSE name

\* The files the host expects after a packet.
Expected(p) ==
  LET files == host.files
      there == files[p.name] # NotThere
  IN CASE p.cmd = "save" -> [files EXCEPT ![p.name] = <<host.sent>>]
       [] p.cmd = "data" -> [files EXCEPT ![p.name] = Append(files[p.name], host.sent)]
       [] p.cmd = "rm" /\ p.form = "good" -> [files EXCEPT ![p.name] = NotThere]
       [] p.cmd = "mv" /\ there /\ files[Other(p.name)] = NotThere ->
            [files EXCEPT ![p.name] = NotThere, ![Other(p.name)] = files[p.name]]
       [] OTHER -> files

\* A plausible mistake: the next buffer is taken whether it is locked or not.
TakesLocked(i) == i = rxIndex

\* get_rx_buf: the first buffer from webusb_rx_index on that is not locked.
Takes(i) ==
  /\ ~rxBuffers[i].lock
  /\ \A j \in Buffers : (j - rxIndex) % IdeBuffers < (i - rxIndex) % IdeBuffers => rxBuffers[j].lock

\* read_webusb and webusb_receive.
PacketArrives(p) ==
  /\ IdeOk /\ host.sent < IdePackets
  /\ host.patient => ~host.waiting
  /\ p \in Packets
  /\ host' = [patient |-> host.patient, waiting |-> TRUE, split |-> p.end = "half", sent |-> host.sent + 1,
               saving |-> IF p.cmd \in {"save", "data"} /\ p.end \in {"no", "half"} THEN p.name ELSE "none",
               files |-> Expected(p)]
  /\ ideOdd' = (ideOdd \/ p.end = "half")
  /\ IF \E i \in Buffers : Takes(i)
     THEN \E i \in Buffers :
            /\ Takes(i)
            /\ rxBuffers' = [rxBuffers EXCEPT ![i] =
                 [lock |-> TRUE, packet |-> [cmd |-> p.cmd, name |-> p.name, form |-> p.form, end |-> p.end, id |-> host.sent]]]
            /\ rxIndex' = (i + 1) % IdeBuffers
            /\ rxQueue' = Append(rxQueue, i)
            /\ UNCHANGED ideLost
     ELSE ideLost' = TRUE /\ UNCHANGED rxVars2
  /\ UNCHANGED <<ideStep, deviceVars, ideFault>>

-----------------------------------------------------------------------------
(***************************************************************************)
(* The parser: ide_parse and the handlers, on the packet at the head of    *)
(* the queue.  "Replies" is ide_reply, which resets the parser.           *)
(***************************************************************************)
Packet == rxBuffers[Head(rxQueue)].packet

\* webusb_receive_process takes a buffer and has it parsed.
Parses ==
  /\ IdeOk /\ ideStep.step = "idle" /\ rxQueue # <<>>
  /\ ideStep' = [step |-> "parsed", buffer |-> Head(rxQueue)]
  /\ rxQueue' = Tail(rxQueue)
  /\ UNCHANGED <<rxBuffers, rxIndex, ideLost>>

Replies == parser' = Idle /\ host' = [host EXCEPT !.waiting = FALSE]

\* A message that does not start one, or a buffer that was wiped, which is passed over.
ParseNothing ==
  /\ Parses
  /\ IF Packet.cmd = "wiped" THEN UNCHANGED <<parser, host>> ELSE Replies
  /\ Packet.cmd = "wiped" \/ (parser.state = "idle" /\ Packet.cmd = "data")
  /\ UNCHANGED <<ideFiles, bootFile, parsedCode, ideOdd, ideFault>>

\* ide_cmd_save: the file is made anew and the packet's data is its first; save_stream on
\* any packet after that.  The file system may be full.
SaveStream(name, saved) ==
  LET ended == Packet.end = "yes"
  IN \/ /\ ideFiles' = [ideFiles EXCEPT ![name] = Append(saved, Packet.id)]
        /\ IF ended THEN Replies ELSE parser' = [state |-> "stream", file |-> name] /\ UNCHANGED host
        /\ UNCHANGED <<bootFile, parsedCode, ideOdd, ideFault>>
     \/ /\ ideFiles' = [ideFiles EXCEPT ![name] = saved]
        /\ Replies
        /\ ideOdd' = TRUE
        /\ UNCHANGED <<bootFile, parsedCode, ideFault>>
ParseSave ==
  /\ Parses
  /\ parser.state = "idle" /\ Packet.cmd = "save"
  /\ SaveStream(Packet.name, <<>>)
ParseStream ==
  /\ Parses
  /\ parser.state = "stream" /\ Packet.cmd # "wiped"
  /\ SaveStream(parser.file, ideFiles[parser.file])

\* A command is carried out although its name was refused: ide_reply returns the number of
\* the error without its sign, and 0 for a name nothing follows.
GoesOn == Packet.form = "good" \/ Packet.form = "cut" \/ (Packet.form = "open" /\ Packet.cmd = "run")

Exists(name) == ideFiles[name] # NotThere

\* ide_cmd_run: what runs is stopped; a file that does not parse leaves the value named
\* after its release.  ide_cmd_stop.
ParseRun ==
  /\ Parses /\ parser.state = "idle"
  /\ \/ Packet.cmd = "stop" /\ parsedCode # "released" /\ parsedCode' = "none"
     \/ Packet.cmd = "run" /\ GoesOn /\ Exists(Packet.name) /\ parsedCode # "released"
          /\ parsedCode' \in {"held", "released"}
     \/ Packet.cmd = "run" /\ (GoesOn => ~Exists(Packet.name)) /\ UNCHANGED parsedCode
  /\ ideOdd' = (ideOdd \/ Packet.form # "good")
  /\ Replies
  /\ UNCHANGED <<ideFiles, bootFile, ideFault>>

\* The value is released a second time.
ReleasesTwice ==
  /\ IdeOk /\ ideStep.step = "idle" /\ rxQueue # <<>>
  /\ parser.state = "idle" /\ parsedCode = "released"
  /\ Packet.cmd = "stop" \/ (Packet.cmd = "run" /\ GoesOn /\ Exists(Packet.name))
  /\ ideFault' = "releases a value that was released"
  /\ rxBuffers' = [i \in Buffers |-> [lock |-> FALSE, packet |-> NoPacket]] /\ rxIndex' = 0 /\ rxQueue' = <<>>
  /\ parser' = Idle /\ ideStep' = [step |-> "idle", buffer |-> 0]
  /\ ideFiles' = [n \in IdeNames |-> NotThere] /\ bootFile' = "none" /\ parsedCode' = "none"
  /\ ideLost' = TRUE
  /\ UNCHANGED <<host, ideOdd>>

\* ide_cmd_remove, ide_cmd_boot and ide_cmd_move.
ParseRemove ==
  /\ Parses /\ parser.state = "idle" /\ Packet.cmd = "rm"
  /\ ideFiles' = IF GoesOn THEN [ideFiles EXCEPT ![Packet.name] = NotThere] ELSE ideFiles
  /\ ideOdd' = (ideOdd \/ Packet.form # "good")
  /\ Replies
  /\ UNCHANGED <<bootFile, parsedCode, ideFault>>
ParseBoot ==
  /\ Parses /\ parser.state = "idle" /\ Packet.cmd = "boot"
  /\ bootFile' = IF GoesOn /\ Exists(Packet.name) THEN Packet.name ELSE bootFile
  /\ Replies
  /\ UNCHANGED <<ideFiles, parsedCode, ideOdd, ideFault>>
ParseMove ==
  /\ Parses /\ parser.state = "idle" /\ Packet.cmd = "mv"
  /\ LET to == Other(Packet.name)
     IN ideFiles' = IF Exists(Packet.name) /\ ~Exists(to)
                    THEN [ideFiles EXCEPT ![Packet.name] = NotThere, ![to] = ideFiles[Packet.name]]
                    ELSE ideFiles
  /\ Replies
  /\ UNCHANGED <<bootFile, parsedCode, ideOdd, ideFault>>

\* ide_cmd_list, ide_cmd_cat and ide_cmd_init only answer.
ParseList ==
  /\ Parses /\ parser.state = "idle" /\ Packet.cmd = "ls"
  /\ Replies
  /\ UNCHANGED <<ideFiles, bootFile, parsedCode, ideOdd, ideFault>>
-----------------------------------------------------------------------------
(***************************************************************************)
(* The release of the buffer.                                              *)
(***************************************************************************)
\* webusb_release_buffer: the buffer is unlocked, and may be taken from here on.
ReleaseBegins ==
  /\ IdeOk /\ ideStep.step = "parsed"
  /\ ideStep' = [ideStep EXCEPT !.step = "unlocked"]
  /\ rxBuffers' = [rxBuffers EXCEPT ![ideStep.buffer].lock = FALSE]
  /\ UNCHANGED <<rxIndex, rxQueue, deviceVars, host, ideLost, ideOdd, ideFault>>

\* A plausible mistake: the state of the save counts for the ACK, and it was reset.
AcksSaves == parser.file = "none"

\* ide_ack: only a save gets one.
Acks == parser.state = "stream"

\* Its length and data are wiped, a packet's that came meanwhile too.  If no buffer is locked
\* the ACK is sent.
ReleaseEnds ==
  /\ IdeOk /\ ideStep.step = "unlocked"
  /\ ideStep' = [step |-> "idle", buffer |-> 0]
  /\ rxBuffers' = [rxBuffers EXCEPT ![ideStep.buffer].packet = NoPacket]
  /\ ideLost' = (ideLost \/ rxBuffers[ideStep.buffer].lock)
  /\ host' = IF Acks /\ \A i \in Buffers : ~rxBuffers[i].lock THEN [host EXCEPT !.waiting = FALSE] ELSE host
  /\ UNCHANGED <<rxIndex, rxQueue, deviceVars, ideOdd, ideFault>>

-----------------------------------------------------------------------------
IdeInit ==
  /\ rxBuffers = [i \in Buffers |-> [lock |-> FALSE, packet |-> NoPacket]] /\ rxIndex = 0 /\ rxQueue = <<>>
  /\ ideStep = [step |-> "idle", buffer |-> 0] /\ parser = Idle
  /\ ideFiles = [n \in IdeNames |-> NotThere] /\ bootFile = "none" /\ parsedCode = "none"
  /\ host \in [patient : BOOLEAN, waiting : {FALSE}, saving : {"none"}, split : {FALSE}, sent : {0},
               files : {ideFiles}]
  /\ ideLost = FALSE /\ ideOdd = FALSE /\ ideFault = "none"

\* What main does; the loop polls the shell in every pass.
IdeProcess ==
  \/ ParseNothing \/ ParseSave \/ ParseStream \/ ParseRun \/ ReleasesTwice \/ ParseRemove
  \/ ParseBoot \/ ParseMove \/ ParseList
  \/ ReleaseBegins \/ ReleaseEnds

IdeNext ==
  \/ \E p \in Packets : PacketArrives(p)
  \/ IdeProcess
  \/ (host.sent = IdePackets \/ ~IdeOk \/ host.waiting) /\ UNCHANGED ideVars

IdeSpec == IdeInit /\ [][IdeNext]_ideVars /\ WF_ideVars(IdeProcess)

-----------------------------------------------------------------------------
(***************************************************************************)
(* Properties.                                                             *)
(***************************************************************************)

\* When everything that arrived is parsed, the device's files are those the host expects:
\* every save holds its packets, all of them and in order.  A host that waits for the ACK
\* of each packet can rely on it; one that does not must not have lost a packet to a full
\* pool or to the wiping of a buffer.
FilesAreAsSent ==
  IdeOk /\ rxQueue = <<>> /\ ~ideOdd /\ (host.patient \/ ~ideLost) => ideFiles = host.files

\* A host that waits for an answer, or for the ACK of a save's packet, gets one.
HostIsAnswered ==
  (host.patient /\ host.waiting) ~> (~host.waiting \/ ~IdeOk)
=============================================================================
