------------------------------ MODULE MCBuses ------------------------------
(* Device buses: the interrupt controller with two device threads that drive *)
(* its lines beside the main thread, the SCSI bus with commands in both       *)
(* directions and one without data, and the USB controller.  They share no    *)
(* state; a behaviour is one of one of them.                                 *)
EXTENDS OsiPic, ScsiBus, Usb

VARIABLE focus

MCBusCommands == {[len |-> 1, size |-> 3, in |-> TRUE], [len |-> 2, size |-> 3, in |-> FALSE],
                  [len |-> 1, size |-> 0, in |-> FALSE]}

BusesInit == focus \in {"irq", "scsi", "usb"} /\ Init /\ BusInit /\ UsbInit

BusesNext ==
    \/ focus = "irq" /\ Next /\ UNCHANGED <<busVars, usbVars, focus>>
    \/ focus = "scsi" /\ BusNext /\ UNCHANGED <<vars, usbVars, focus>>
    \/ focus = "usb" /\ UsbNext /\ UNCHANGED <<vars, busVars, focus>>

BusesSpec ==
    BusesInit /\ [][BusesNext]_<<vars, busVars, usbVars, focus>> /\ BusFairness /\ UsbFairness
=============================================================================
