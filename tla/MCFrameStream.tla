--------------------------- MODULE MCFrameStream ---------------------------
(* Instances of FrameStream for TLC: frames with the byte patterns that    *)
(* framing by CR LF can get wrong.                                         *)
EXTENDS FrameStream

\* 78 78, a dummy length, the protocol byte, the content and CR LF.
Short(proto, content) == <<120, 120, 0, proto>> \o content \o <<CR, LF>>
Ext(proto, content) == <<121, 121, 0, 0, proto>> \o content \o <<CR, LF>>

\* The software version is CR, just before the trailer.
Login == Short(MsgLogin, <<8, 97, 151, 16, 128, 6, 21, 41, CR>>)
TimeSync == Short(MsgTimeSync, <<>>)
\* CR LF in the first fields, and a fifth byte, CR, just before the trailer.
Status == Short(MsgStatus, <<100, CR, LF, 5, CR>>)
\* Day 13, 10 h in the date, 78 78 in the latitude, CR LF in the course.
GPS == Short(16, <<24, 1, CR, LF, 30, 0, 198, 2, 120, 120, 7, 9, 1, 2, 3, 5, CR, LF>>)
ICCID == Ext(MsgICCID, <<137, 152, 51>>)
Unknown == Short(148, <<7>>)

Date == <<36, 1, 19, 16, 48, 0>>
AP == <<170, 187, 204, 221, 238, 255, 60>>
\* One cell of 7 bytes, MCC 432, MNC 11.
Cell7 == <<1, 1, 176, 11, 18, 52, 0, 0, 86, 120, 64>>
Wifi == Short(26, Date \o AP)
LBS(cells) == Short(26, Date \o AP \o cells)

Sends(noise, frames) == [bytes |-> noise \o FlattenSeq(frames), frames |-> frames]

\* Two frames in any order, the second may be a Wi-Fi report without cells.
Fixed == {Login, TimeSync, Status, GPS, ICCID, Unknown, LBS(Cell7)}
Pairs == {Sends(<<>>, <<f, g>>) : f \in Fixed, g \in Fixed \cup {Wifi}}

\* Noise before three frames.
Noises == {<<0>>, <<7, CR, LF, 1, 2, 3>>, <<120, 9, 121, 9, 9, 9, 9>>}
Noisy == {Sends(noise, <<f, g, Login>>) :
            noise \in Noises, f \in {Login, TimeSync, Status}, g \in {TimeSync, Status}}

\* Noise before a frame whose body looks like a header.
Jumbled == {Sends(noise, <<GPS, Login>>) : noise \in Noises}

CleanOrNoisy == Pairs \cup Noisy \cup Jumbled

WifiThenLBS == {Sends(<<>>, <<Wifi, LBS(Cell7)>>)}

=============================================================================
