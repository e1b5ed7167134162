------------------------------- MODULE KeyFiles -------------------------------
(***************************************************************************)
(* The identity the decoys keep on disk: the SSH host key                  *)
(* (internal/decoy/ssh/hostkey.go) and the TLS certificate with its key    *)
(* (internal/tlsutil/cert.go), made on the first start, and the order in   *)
(* which cmd/honeysight/main.go asks for them and serves them, with the    *)
(* SSH and the HTTPS listener on: SSH is up before the pair is asked for.  *)
(*                                                                         *)
(* os.WriteFile truncates and then writes: a process that dies in between, *)
(* or whose write fails, leaves a torn file.  An identity is the number of *)
(* the key generation that made it; 0 is a torn file.  Any operation on a  *)
(* file may fail, and the operator may remove one while the process is     *)
(* down.                                                                   *)
(***************************************************************************)
EXTENDS Integers

CONSTANTS
  MaxKeys,   \* bound of the number of keys generated
  MaxStarts  \* bound of the number of starts

Files == {"host_key", "cert", "key"}
Identities == {"host_key", "cert"}

Torn == 0
Absent == -1

VARIABLES
  disk,     \* what each file holds
  pc,       \* where main is
  host,     \* the host key SSH serves, 0 for none
  pair,     \* the certificate, with its key, HTTPS serves, 0 for none
  lastKey,  \* number of the last key generated
  starts,   \* history: number of starts
  known     \* history: what clients have seen of each identity since the
            \* operator removed a file of it, or a start could not read one
            \* that is there; Absent for nothing

vars == <<disk, pc, host, pair, lastKey, starts, known>>

Init ==
  /\ disk = [f \in Files |-> Absent]
  /\ pc = "down"
  /\ host = 0
  /\ pair = 0
  /\ lastKey = 0
  /\ starts = 0
  /\ known = [i \in Identities |-> Absent]

Goto(from, to) == pc = from /\ pc' = to

\* os.WriteFile opens and truncates the file, and then writes it.
Truncate(f) == disk' = [disk EXCEPT ![f] = Torn]
Fill(f, k) == disk' = [disk EXCEPT ![f] = k]

\* Clients that have seen identity i may see another one from now on.
Forget(i) == known' = [known EXCEPT ![i] = Absent]

\* An operation fails in one of the states from: main ends.
FailsAt(from) == pc \in from /\ pc' = "failed"

Start ==
  /\ starts < MaxStarts
  /\ Goto("down", "host_key")
  /\ starts' = starts + 1
  /\ UNCHANGED <<disk, host, pair, lastKey, known>>

-----------------------------------------------------------------------------
(* EnsureHostKey; when it returns a key, the SSH server starts with it.    *)

\* A file of the right size is read.
HostKeyRead ==
  /\ disk["host_key"] > 0
  /\ Goto("host_key", "cert")
  /\ host' = disk["host_key"]
  /\ UNCHANGED <<disk, pair, lastKey, starts, known>>

\* A file of another size is read: main ends.
HostKeyBad ==
  /\ disk["host_key"] = Torn
  /\ Goto("host_key", "fatal")
  /\ UNCHANGED <<disk, host, pair, lastKey, starts, known>>

\* There is no file, or reading it fails for whatever reason: a key is
\* generated and the file opened, which truncates it.
GenerateHostKey ==
  /\ lastKey < MaxKeys
  /\ Goto("host_key", "host_key_write")
  /\ lastKey' = lastKey + 1
  /\ Truncate("host_key")
  /\ \/ disk["host_key"] = Absent /\ UNCHANGED known
     \/ disk["host_key"] # Absent /\ Forget("host_key")
  /\ UNCHANGED <<pair, starts>>

\* The SSH server is started with the key before it is in its file.
HostKeyServedFirst == GenerateHostKey /\ host' = lastKey'

HostKeyNew == GenerateHostKey /\ UNCHANGED host

HostKeyWritten ==
  /\ Goto("host_key_write", "cert")
  /\ Fill("host_key", lastKey)
  /\ host' = lastKey
  /\ UNCHANGED <<pair, lastKey, starts, known>>

\* The directory, the key or the file cannot be made, or the file not
\* written; an error of its close comes when it is.
HostKeyFails ==
  /\ FailsAt({"host_key", "host_key_write"})
  /\ \/ UNCHANGED disk
     \/ pc = "host_key_write" /\ Fill("host_key", lastKey)
  /\ UNCHANGED <<host, pair, lastKey, starts, known>>

-----------------------------------------------------------------------------
(* EnsureCert.                                                             *)

\* Only the certificate is looked for.
CertFoundAlone == disk["cert"] # Absent

\* EnsureCert looks for both files, not into them.
CertFound == disk["cert"] # Absent /\ disk["key"] # Absent

CertKept ==
  /\ CertFound
  /\ Goto("cert", "load")
  /\ UNCHANGED <<disk, host, pair, lastKey, starts, known>>

\* One of the files is not there, or looking for it fails for whatever reason:
\* a pair is generated and the certificate's file opened.
CertNew ==
  /\ lastKey < MaxKeys
  /\ Goto("cert", "cert_write")
  /\ lastKey' = lastKey + 1
  /\ Truncate("cert")
  /\ \/ ~CertFound /\ UNCHANGED known
     \/ CertFound /\ Forget("cert")
  /\ UNCHANGED <<host, pair, starts>>

CertWritten ==
  /\ Goto("cert_write", "key_open")
  /\ Fill("cert", lastKey)
  /\ UNCHANGED <<host, pair, lastKey, starts, known>>

KeyOpened ==
  /\ Goto("key_open", "key_write")
  /\ Truncate("key")
  /\ UNCHANGED <<host, pair, lastKey, starts, known>>

KeyWritten ==
  /\ Goto("key_write", "load")
  /\ Fill("key", lastKey)
  /\ UNCHANGED <<host, pair, lastKey, starts, known>>

\* The directory, the pair or a file cannot be made, or a file not written;
\* an error of its close comes when it is.
CertFails ==
  /\ FailsAt({"cert", "cert_write", "key_open", "key_write"})
  /\ \/ UNCHANGED disk
     \/ pc = "cert_write" /\ Fill("cert", lastKey)
     \/ pc = "key_write" /\ Fill("key", lastKey)
  /\ UNCHANGED <<host, pair, lastKey, starts, known>>

-----------------------------------------------------------------------------
(* The HTTPS listener.                                                     *)

\* tls.LoadX509KeyPair reads both files and compares the public keys; the
\* listener comes up with the pair.
Loaded ==
  /\ disk["cert"] = disk["key"]
  /\ disk["cert"] > 0
  /\ Goto("load", "up")
  /\ pair' = disk["cert"]
  /\ UNCHANGED <<disk, host, lastKey, starts, known>>

\* What the files hold is no pair.
LoadFails ==
  /\ disk["cert"] # disk["key"] \/ disk["cert"] <= 0
  /\ Goto("load", "fatal")
  /\ UNCHANGED <<disk, host, pair, lastKey, starts, known>>

\* A file cannot be read, or the port not listened on.
TlsFails ==
  /\ FailsAt({"load"})
  /\ UNCHANGED <<disk, host, pair, lastKey, starts, known>>

-----------------------------------------------------------------------------
\* A client connects to SSH, which serves from the moment EnsureHostKey has
\* returned, whatever becomes of the rest of the start.
ShowHostKey ==
  /\ host > 0
  /\ known' = [known EXCEPT !["host_key"] = host]
  /\ UNCHANGED <<disk, pc, host, pair, lastKey, starts>>

\* A client connects to HTTPS.
ShowCert ==
  /\ pair > 0
  /\ known' = [known EXCEPT !["cert"] = pair]
  /\ UNCHANGED <<disk, pc, host, pair, lastKey, starts>>

\* The process ends: killed at any moment, or by fatal, or stopped.
Down ==
  /\ pc # "down"
  /\ pc' = "down"
  /\ host' = 0
  /\ pair' = 0
  /\ UNCHANGED <<disk, lastKey, starts, known>>

\* The operator removes a file to have a new identity.
Remove(f) ==
  /\ pc = "down"
  /\ disk[f] # Absent
  /\ disk' = [disk EXCEPT ![f] = Absent]
  /\ Forget(IF f = "host_key" THEN f ELSE "cert")
  /\ UNCHANGED <<pc, host, pair, lastKey, starts>>

Ensure ==
  \/ HostKeyRead \/ HostKeyBad \/ HostKeyNew \/ HostKeyWritten \/ HostKeyFails
  \/ CertKept \/ CertNew \/ CertWritten \/ KeyOpened \/ KeyWritten \/ CertFails
  \/ Loaded \/ LoadFails \/ TlsFails

Next ==
  \/ Start
  \/ Ensure
  \/ ShowHostKey
  \/ ShowCert
  \/ Down
  \/ \E f \in Files : Remove(f)

Spec == Init /\ [][Next]_vars

-----------------------------------------------------------------------------
TypeOK ==
  /\ disk \in [Files -> {Absent, Torn} \cup 1..lastKey]
  /\ pc \in {"down", "host_key", "host_key_write", "cert", "cert_write", "key_open",
             "key_write", "load", "up", "fatal", "failed"}
  /\ host \in 0..lastKey
  /\ pair \in 0..lastKey
  /\ pc = "up" => host > 0 /\ pair > 0
  /\ lastKey \in 0..MaxKeys
  /\ starts \in 0..MaxStarts
  /\ known \in [Identities -> {Absent} \cup 1..lastKey]

\* What a client has seen of an identity is in all its files.
KnownIsOnDisk ==
  /\ known["host_key"] # Absent => disk["host_key"] = known["host_key"]
  /\ known["cert"] # Absent => disk["cert"] = known["cert"] /\ disk["key"] = known["cert"]

\* "persisted": no client is shown a host key or a certificate that is not
\* wholly on disk, at any moment of any start, whatever becomes of it; and
\* once one was shown, all later starts show that one, through any number of
\* kills and failed starts, until the operator removes it or a start cannot
\* read it: the code then makes a new one (hostkey.go:21, cert.go:24-25).
IdentityIsStable ==
  [][/\ KnownIsOnDisk'
     /\ \A i \in Identities : known[i] # Absent => known'[i] \in {known[i], Absent}]_vars

\* A start is refused for what the files hold only over a torn file, or over a
\* certificate and a key of different pairs: missing files are made good.
FatalMeansTorn ==
  pc = "fatal" =>
    \/ \E f \in Files : disk[f] = Torn
    \/ /\ disk["cert"] > 0
       /\ disk["key"] > 0
       /\ disk["cert"] # disk["key"]
=============================================================================
