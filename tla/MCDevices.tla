----------------------------- MODULE MCDevices -----------------------------
(***************************************************************************)
(* Main and what it talks to on the board itself, one at a time: the       *)
(* interrupts of pins and serial lines, the file system, the host and the  *)
(* terminal of the development shell, and buffers, which main has for      *)
(* itself, share nothing but main.                                         *)
(***************************************************************************)
EXTENDS WebUsb, Pins, Fs, Ide, TermUart, TermLine, Buffer

VARIABLE device  \* the one this behaviour is about

deviceAllVars == <<usbVars, pinVars, fsVars, ideVars, ttVars, tlVars, bufVars, device>>

UsbBudgetsDef == {[out |-> 5, in |-> 1], [out |-> 1, in |-> 5]}
PinBudgetsDef ==
  {[gpios |-> 2, aios |-> 0, changes |-> 3, bytes |-> 0], [gpios |-> 0, aios |-> 0, changes |-> 0, bytes |-> 4],
   [gpios |-> 0, aios |-> 2, changes |-> 3, bytes |-> 0], [gpios |-> 1, aios |-> 0, changes |-> 2, bytes |-> 2]}
UartRangesDef == {[min |-> 1, max |-> 4], [min |-> 2, max |-> 3], [min |-> 1, max |-> 1]}
BufContentsDef == {<<>>, <<1, 0>>, <<0, 1, 1, 0, 1>>}
BufValuesDef == {-3, 5, 14}
IdeCommandsDef ==
  {[cmd |-> "run", name |-> "a", form |-> f] : f \in {"good", "cut"}} \union
  {[cmd |-> "rm", name |-> "a", form |-> f] : f \in {"good", "cut", "open"}} \union
  [cmd : {"mv", "boot", "stop", "ls"}, name : {"a"}, form : {"good"}]

Init ==
  /\ UsbInit /\ PinsInit /\ FsInit /\ IdeInit /\ TtInit /\ TlInit /\ BufferInit
  /\ device \in {"usb", "pins", "fs", "ide", "uart", "line", "buffer"}
  /\ device # "usb" => usbBudget.in = 1
  /\ device # "pins" => pinBudget.aios = 2
  /\ device # "ide" => host.patient

Next ==
  \/ device = "usb" /\ UsbNext /\ UNCHANGED <<pinVars, fsVars, ideVars, ttVars, tlVars, bufVars, device>>
  \/ device = "pins" /\ PinsNext /\ UNCHANGED <<usbVars, fsVars, ideVars, ttVars, tlVars, bufVars, device>>
  \/ device = "fs" /\ FsNext /\ UNCHANGED <<usbVars, pinVars, ideVars, ttVars, tlVars, bufVars, device>>
  \/ device = "ide" /\ IdeNext /\ UNCHANGED <<usbVars, pinVars, fsVars, ttVars, tlVars, bufVars, device>>
  \/ device = "uart" /\ TtNext /\ UNCHANGED <<usbVars, pinVars, fsVars, ideVars, tlVars, bufVars, device>>
  \/ device = "line" /\ TlNext /\ UNCHANGED <<usbVars, pinVars, fsVars, ideVars, ttVars, bufVars, device>>
  \/ device = "buffer" /\ BufferNext /\ UNCHANGED <<usbVars, pinVars, fsVars, ideVars, ttVars, tlVars, device>>

\* The loop polls the shell in every pass, which Ide assumes too.
MainServesIde ==
  device = "ide" /\ IdeProcess /\ UNCHANGED <<usbVars, pinVars, fsVars, ttVars, tlVars, bufVars, device>>

Spec == Init /\ [][Next]_deviceAllVars /\ WF_deviceAllVars(MainServesIde)

-----------------------------------------------------------------------------
\* What is typed reaches the terminal in order and makes the lines, and the captured files,
\* that were edited: as long as no interrupt comes while main gives up waiting for more, no
\* NUL is typed, and a file takes what is written to it.
TerminalIsFaithful == TypedIsKept /\ TakenIsProcessed /\ LinesAreAsEdited
=============================================================================
