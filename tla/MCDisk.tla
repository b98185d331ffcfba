------------------------------- MODULE MCDisk -------------------------------
(* The two halves of the disk path on one small instance each: the channel  *)
(* that carries requests and the image that serves them.  They share no      *)
(* state; a behaviour is one of the channel or one of an image.              *)
EXTENDS ABlk, Qcow

VARIABLE focus

diskVars == <<blkVars, qcowVars, focus>>

DiskInit == focus \in {"channel", "image"} /\ BlkInit /\ QcowInit
DiskNext ==
    \/ focus = "channel" /\ BlkNext /\ UNCHANGED <<qcowVars, focus>>
    \/ focus = "image" /\ QcowNext /\ UNCHANGED <<blkVars, focus>>

DiskSpec == DiskInit /\ [][DiskNext]_diskVars /\ BlkFairness
=============================================================================
