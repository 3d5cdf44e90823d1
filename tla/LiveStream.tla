----------------------------- MODULE LiveStream -----------------------------
(***************************************************************************)
(* The live bridge of src/main.cpp: startLiveStream, stopLiveStream and    *)
(* serviceLiveStream.  Bytes read from the port at one fixed baud go to    *)
(* the analyzer and to at most one TCP client; a client that cannot take   *)
(* all of a write is dropped, so that no client ever sees a gap.           *)
(***************************************************************************)
EXTENDS ProbeState

\* supportedBaud holds of every b here: the handler answers 400 to the others.
HandleStartLiveStream(b) ==
  /\ pc = "http"
  /\ ~capture.active /\ ~stream.active
  /\ stream' = [NoStream EXCEPT !.active = TRUE, !.baud = b]
  /\ analyzed' = AnalyzerReset
  /\ uart' = PortBegin(uart, b)
  /\ led' = TRUE
  /\ pc' = "capture"
  /\ UNCHANGED <<clearing, captureVars, client, waiting, got, flashVars, sweeps>>

HandleStopLiveStream ==
  /\ pc = "http" /\ stream.active
  /\ uart' = PortEnd(uart)
  /\ client' = "none"
  /\ stream' = [stream EXCEPT !.active = FALSE]
  /\ led' = FALSE
  /\ pc' = "capture"
  /\ UNCHANGED <<clearing, captureVars, waiting, got, analyzed, flashVars, sweeps>>

StreamIdle ==
  /\ pc = "stream" /\ ~stream.active
  /\ pc' = "delay"
  /\ UNCHANGED <<clearing, captureVars, streamVars, analyzed, uart, led,
                 flashVars, sweeps>>

\* Mutants: a client that is gone still counts as one; accept blocks.
KeepAnyClient == client # "none" /\ UNCHANGED streamVars
WaitForClient == FALSE

KeepClient == client = "up" /\ UNCHANGED streamVars

NobodyWaits ==
  /\ client # "up" /\ waiting = 0
  /\ client' = "none"
  /\ UNCHANGED <<stream, waiting, got>>

\* The connection taken from the backlog may be gone already.
TakeWaiting ==
  /\ client # "up" /\ waiting > 0
  /\ client' \in {"up", "down"}
  /\ waiting' = waiting - 1
  /\ stream' = [stream EXCEPT !.accepted = Cap(@ + 1)]
  /\ got' = {}

\* The head of serviceLiveStream: a client that is gone is stopped and the
\* next waiting connection takes its place.
AcceptClient ==
  /\ pc = "stream" /\ stream.active
  /\ KeepClient \/ NobodyWaits \/ TakeWaiting
  /\ pc' = "pump"
  /\ UNCHANGED <<clearing, captureVars, analyzed, uart, led, flashVars, sweeps>>

\* WiFiClient::write returns how much was sent: `received`, or less when the
\* connection stalls or breaks (external).
TcpWrites(received) == 0..received

\* Mutant: a short write keeps the client.
ClientKept(w, received) == "up"

ClientAfterWrite(w, received) == IF w # received THEN "none" ELSE "up"

\* One turn of the pump loop.  The bytes read are numbered by their place in
\* stream.bytesRead.
PumpStream ==
  /\ pc = "pump" /\ uart.ring # <<>>
  /\ LET received == Lesser(Len(uart.ring), StreamChunk)
     IN /\ uart' = PortTake(uart, received)
        /\ analyzed' = Cap(analyzed + received)
        /\ \/ /\ client # "up"
              /\ stream' = [stream EXCEPT !.read = Cap(@ + received)]
              /\ UNCHANGED <<client, got>>
           \/ /\ client = "up"
              /\ \E w \in TcpWrites(received) :
                   /\ stream' = [stream EXCEPT !.read = Cap(@ + received),
                                               !.sent = Cap(@ + w)]
                   /\ got' = got \cup {Cap(stream.read + k) : k \in 1..w}
                   /\ client' = ClientAfterWrite(w, received)
  /\ UNCHANGED <<pc, clearing, captureVars, waiting, led, flashVars, sweeps>>

PumpDone ==
  /\ pc = "pump" /\ uart.ring = <<>>
  /\ pc' = "delay"
  /\ UNCHANGED <<clearing, captureVars, streamVars, analyzed, uart, led,
                 flashVars, sweeps>>
=============================================================================
