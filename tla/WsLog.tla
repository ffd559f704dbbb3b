------------------------------- MODULE WsLog -------------------------------
(***************************************************************************)
(* A log is shown over a websocket (HandleLogs): the handler scans the     *)
(* lines into a channel, a ticker puts pings between them, one goroutine   *)
(* writes what is in the channel to the client, one reads what the client  *)
(* sends, which is only that it closes. Three of them can close the        *)
(* channels, nothing keeps two from doing so, and the panic that follows   *)
(* ends a goroutine as a return does (each recovers from it).              *)
(*                                                                         *)
(* The client and the connection are modelled from what gorilla/websocket  *)
(* returns to this code.                                                   *)
(***************************************************************************)
EXTENDS Naturals, Sequences

CONSTANTS
    MaxLines,   \* bound: lines of a log
    ChanCap     \* messages the channel holds (5)

ASSUME WsLogAssumption == MaxLines \in Nat /\ ChanCap \in Nat \ {0}

VARIABLES
    lines,      \* lines of the log, up to one longer than a token of the scanner
    sent,       \* of these, those put into the channel
    written,    \* of these, those written to the client
    scanner,    \* the handler: at the top of its loop, at a send, or over
    ticker,     \* the goroutine that pings
    writer,     \* the goroutine that writes, or the message it has taken
    reader,     \* the goroutine that reads
    message,    \* the channel of messages
    messageClosed,
    stopCh,     \* stopCh is closed
    pinged,     \* a ping was written: from then on reads have a deadline
    conn        \* open, closed by the client, or lost

wsVars == <<lines, sent, written, scanner, ticker, writer, reader, message,
            messageClosed, stopCh, pinged, conn>>

WsInit ==
    /\ lines \in 0 .. MaxLines
    /\ sent = 0
    /\ written = 0
    /\ scanner = "scan"
    /\ ticker = "wait"
    /\ writer = "wait"
    /\ reader = "read"
    /\ message = <<>>
    /\ messageClosed = FALSE
    /\ stopCh = FALSE
    /\ pinged = FALSE
    /\ conn = "open"

HasRoom == Len(message) < ChanCap

-----------------------------------------------------------------------------
(* The handler.                                                            *)

ScanLine ==
    /\ scanner = "scan"
    /\ sent < lines
    /\ ~stopCh
    /\ scanner' = "send"
    /\ UNCHANGED <<lines, sent, written, ticker, writer, reader, message,
                   messageClosed, stopCh, pinged, conn>>

ScanStops ==
    /\ scanner = "scan"
    /\ sent < lines
    /\ stopCh
    /\ scanner' = "over"
    /\ UNCHANGED <<lines, sent, written, ticker, writer, reader, message,
                   messageClosed, stopCh, pinged, conn>>

\* A send to a full channel waits, and one to a closed channel panics.
SendLine ==
    /\ scanner = "send"
    /\ \/ /\ messageClosed
          /\ scanner' = "over"
          /\ UNCHANGED <<message, sent>>
       \/ /\ ~messageClosed
          /\ HasRoom
          /\ scanner' = "scan"
          /\ sent' = sent + 1
          /\ message' = Append(message, "line")
    /\ UNCHANGED <<lines, written, ticker, writer, reader, messageClosed, stopCh,
                   pinged, conn>>

\* Slip: the end of the log closes stopCh, too.
LogEnds_stop ==
    /\ scanner = "scan"
    /\ sent = lines
    /\ scanner' = "over"
    /\ messageClosed' = TRUE
    /\ stopCh' = TRUE
    /\ UNCHANGED <<lines, sent, written, ticker, writer, reader, message, pinged,
                   conn>>

\* After the last line the channel is closed; what it holds can be taken.
LogEnds ==
    /\ scanner = "scan"
    /\ sent = lines
    /\ scanner' = "over"
    /\ messageClosed' = TRUE
    /\ UNCHANGED <<lines, sent, written, ticker, writer, reader, message, stopCh,
                   pinged, conn>>

-----------------------------------------------------------------------------
(* The ticker.                                                             *)

Tick ==
    /\ ticker = "wait"
    /\ ticker' = "send"
    /\ UNCHANGED <<lines, sent, written, scanner, writer, reader, message,
                   messageClosed, stopCh, pinged, conn>>

SendPing ==
    /\ ticker = "send"
    /\ \/ /\ messageClosed
          /\ ticker' = "over"
          /\ UNCHANGED message
       \/ /\ ~messageClosed
          /\ HasRoom
          /\ ticker' = "wait"
          /\ message' = Append(message, "ping")
    /\ UNCHANGED <<lines, sent, written, scanner, writer, reader, messageClosed,
                   stopCh, pinged, conn>>

TickerStops ==
    /\ ticker = "wait"
    /\ stopCh
    /\ ticker' = "over"
    /\ UNCHANGED <<lines, sent, written, scanner, writer, reader, message,
                   messageClosed, stopCh, pinged, conn>>

-----------------------------------------------------------------------------
(* The goroutine that writes. When the channel and stopCh are both ready,  *)
(* select takes either.                                                    *)

TakeMessage ==
    /\ writer = "wait"
    /\ message # <<>>
    /\ writer' = Head(message)
    /\ message' = Tail(message)
    /\ UNCHANGED <<lines, sent, written, scanner, ticker, reader, messageClosed,
                   stopCh, pinged, conn>>

WriteMessage ==
    /\ writer \in {"line", "ping"}
    /\ writer' = "wait"
    /\ written' = IF writer = "line" THEN written + 1 ELSE written
    /\ pinged' = (pinged \/ writer = "ping")
    /\ UNCHANGED <<lines, sent, scanner, ticker, reader, message, messageClosed,
                   stopCh, conn>>

\* It returns at an error, and nobody is told.
WriteFails ==
    /\ writer \in {"line", "ping"}
    /\ conn # "open"
    /\ writer' = "over"
    /\ UNCHANGED <<lines, sent, written, scanner, ticker, reader, message,
                   messageClosed, stopCh, pinged, conn>>

\* The channel is closed and empty: Close ends the others. Its second close
\* panics, for the channel of messages is closed.
WriterCloses ==
    /\ writer = "wait"
    /\ message = <<>>
    /\ messageClosed
    /\ writer' = "over"
    /\ stopCh' = TRUE
    /\ UNCHANGED <<lines, sent, written, scanner, ticker, reader, message,
                   messageClosed, pinged, conn>>

WriterStops ==
    /\ writer = "wait"
    /\ stopCh
    /\ writer' = "over"
    /\ UNCHANGED <<lines, sent, written, scanner, ticker, reader, message,
                   messageClosed, stopCh, pinged, conn>>

-----------------------------------------------------------------------------
(* The goroutine that reads.                                               *)

\* The close handler calls Close: a stopCh that is closed ends it at once.
ReadClose ==
    /\ reader = "read"
    /\ conn = "closed"
    /\ reader' = IF stopCh THEN "over" ELSE "close"
    /\ stopCh' = TRUE
    /\ UNCHANGED <<lines, sent, written, scanner, ticker, writer, message,
                   messageClosed, pinged, conn>>

\* Slip: only stopCh is closed.
CloseMessage_not ==
    /\ reader = "close"
    /\ reader' = "over"
    /\ UNCHANGED <<lines, sent, written, scanner, ticker, writer, message,
                   messageClosed, stopCh, pinged, conn>>

\* Then the messages; whether or not this panics, the goroutine ends.
CloseMessage ==
    /\ reader = "close"
    /\ reader' = "over"
    /\ messageClosed' = TRUE
    /\ UNCHANGED <<lines, sent, written, scanner, ticker, writer, message, stopCh,
                   pinged, conn>>

\* A connection that is lost or silent beyond the deadline fails for good. The
\* failures are counted and the count is set to zero each time, so that Close
\* is never called for them.
ReadFails ==
    /\ reader = "read"
    /\ conn = "lost" \/ (conn = "open" /\ pinged /\ writer = "over")
    /\ reader' = "failing"
    /\ UNCHANGED <<lines, sent, written, scanner, ticker, writer, message,
                   messageClosed, stopCh, pinged, conn>>

\* It looks at stopCh between two failures; the thousandth panics.
ReaderStops ==
    /\ reader = "failing"
    /\ stopCh \/ conn = "lost"
    /\ reader' = "over"
    /\ UNCHANGED <<lines, sent, written, scanner, ticker, writer, message,
                   messageClosed, stopCh, pinged, conn>>

\* Anything the client sends, such as its answer to a ping, has it look, too.
ReaderHears ==
    /\ reader = "read"
    /\ conn = "open"
    /\ stopCh
    /\ reader' = "over"
    /\ UNCHANGED <<lines, sent, written, scanner, ticker, writer, message,
                   messageClosed, stopCh, pinged, conn>>

-----------------------------------------------------------------------------
\* The client closes, or is lost: broken off, stuck or slower than the deadline.
ConnEnds ==
    /\ conn = "open"
    /\ conn' \in {"closed", "lost"}
    /\ UNCHANGED <<lines, sent, written, scanner, ticker, writer, reader, message,
                   messageClosed, stopCh, pinged>>

Handler == ScanLine \/ ScanStops \/ SendLine \/ LogEnds
Ticker == Tick \/ SendPing \/ TickerStops
Writer == TakeMessage \/ WriteMessage \/ WriteFails \/ WriterCloses \/ WriterStops
Reader == ReadClose \/ CloseMessage \/ ReadFails \/ ReaderStops

WsNext == Handler \/ Ticker \/ Writer \/ Reader \/ ReaderHears \/ ConnEnds

WsSpec == WsInit /\ [][WsNext]_wsVars

\* Each goroutine is scheduled; those that wait for room in the channel are
\* served in turn, and select does not pass over stopCh for ever. A write to a
\* lost connection may take for ever, and a client need not send anything.
WsFairness ==
    /\ WF_wsVars(ScanLine \/ ScanStops \/ LogEnds)
    /\ SF_wsVars(SendLine)
    /\ WF_wsVars(SendPing)
    /\ SF_wsVars(TickerStops)
    /\ WF_wsVars(conn # "lost" /\ Writer)
    /\ WF_wsVars(Reader)

-----------------------------------------------------------------------------
WsTypeOK ==
    /\ lines \in 0 .. MaxLines
    /\ sent \in 0 .. lines
    /\ written \in 0 .. sent
    /\ scanner \in {"scan", "send", "over"}
    /\ ticker \in {"wait", "send", "over"}
    /\ writer \in {"wait", "line", "ping", "over"}
    /\ reader \in {"read", "failing", "close", "over"}
    /\ message \in Seq({"line", "ping"}) /\ Len(message) =< ChanCap
    /\ messageClosed \in BOOLEAN
    /\ stopCh \in BOOLEAN
    /\ pinged \in BOOLEAN
    /\ conn \in {"open", "closed", "lost"}

\* A client that stays is shown the log to its last line, although the one
\* that scans is done long before the one that writes (wsclient.go:103, 115).
LogArrives == []<>(written = lines \/ conn # "open")

\* Nobody of them is left; only a lost connection may leave some behind.
GoroutinesOver ==
    \/ conn = "lost"
    \/ /\ "over" = scanner /\ "over" = ticker /\ "over" = writer
       /\ conn = "closed" => reader = "over"

\* Whoever closes first and whoever panics, the handler, the ticker and the
\* writer end, and with a client that closes the reader, too. Only a lost
\* connection may leave some behind (wsclient.go:54-57, 119).
GoroutinesEnd == <>[]GoroutinesOver

=============================================================================
