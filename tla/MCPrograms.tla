----------------------------- MODULE MCPrograms -----------------------------
(***************************************************************************)
(* The programs and libraries that answer to the kernel, to peers or to    *)
(* threads, checked side by side.  They share nothing: part says which of  *)
(* them a behaviour is about, and the others rest in their idle state.     *)
(***************************************************************************)
EXTENDS Netlink, InotifySample, WinDirMonitor, EchoServer, Lwnfs, SyslogClient, RtpQual, Pmsft, PacketFilter

VARIABLE part

\* IPv4, IPv6 and ARP; both sides of each test of the filters, and sizes around
\* the headers and past the buffers.
MCFrameFields ==
  [ethertype |-> {34525, 2054}, ihl |-> {6}, proto |-> {2, 17}, frag |-> {1}, dst |-> {224},
   sport |-> {53}, dport |-> {53}, udplen |-> {"wrong"}, csum |-> {"none", "wrong"},
   first |-> {257, 27754}, mlen |-> {9}, magic |-> {554869825}, dlen |-> {4, 9, 16, 28, 1600}]

MCAddresses == {<<1, 2>>, <<0, 1>>, <<0, 2>>}

Parts == {"netlink", "inotify", "windows", "echo", "fs", "syslog", "rtp", "pmsft", "capture"}

MCInit ==
  /\ part \in Parts
  /\ NetlinkInit
  /\ IF part = "inotify" THEN InotifyInit ELSE InotifyIdle
  /\ IF part = "windows" THEN WinInit ELSE WinIdle
  /\ IF part = "echo" THEN EchoInit ELSE EchoIdle
  /\ IF part = "fs" THEN FsInit ELSE FsIdle
  /\ IF part = "syslog" THEN SyslogInit ELSE SyslogIdle
  /\ IF part = "rtp" THEN RtpInit ELSE RtpIdle
  /\ IF part = "pmsft" THEN PmsftInit ELSE PmsftIdle
  /\ IF part = "capture" THEN CaptureInit ELSE CaptureIdle

MCNext ==
  \/ /\ part = "netlink" /\ NetlinkNext
     /\ UNCHANGED <<part, inotifyVars, winVars, echoVars, fsVars, syslogVars, rtpVars, pmsftVars, captureVars>>
  \/ /\ part = "inotify" /\ InotifyNext
     /\ UNCHANGED <<part, netlinkVars, winVars, echoVars, fsVars, syslogVars, rtpVars, pmsftVars, captureVars>>
  \/ /\ part = "windows" /\ WinNext
     /\ UNCHANGED <<part, netlinkVars, inotifyVars, echoVars, fsVars, syslogVars, rtpVars, pmsftVars, captureVars>>
  \/ /\ part = "echo" /\ EchoNext
     /\ UNCHANGED <<part, netlinkVars, inotifyVars, winVars, fsVars, syslogVars, rtpVars, pmsftVars, captureVars>>
  \/ /\ part = "fs" /\ FsNext
     /\ UNCHANGED <<part, netlinkVars, inotifyVars, winVars, echoVars, syslogVars, rtpVars, pmsftVars, captureVars>>
  \/ /\ part = "syslog" /\ SyslogNext
     /\ UNCHANGED <<part, netlinkVars, inotifyVars, winVars, echoVars, fsVars, rtpVars, pmsftVars, captureVars>>
  \/ /\ part = "rtp" /\ RtpNext
     /\ UNCHANGED <<part, netlinkVars, inotifyVars, winVars, echoVars, fsVars, syslogVars, pmsftVars, captureVars>>
  \/ /\ part = "pmsft" /\ PmsftNext
     /\ UNCHANGED <<part, netlinkVars, inotifyVars, winVars, echoVars, fsVars, syslogVars, rtpVars, captureVars>>
  \/ /\ part = "capture" /\ CaptureNext
     /\ UNCHANGED <<part, netlinkVars, inotifyVars, winVars, echoVars, fsVars, syslogVars, rtpVars, pmsftVars>>
=============================================================================
