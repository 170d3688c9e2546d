---------------------------- MODULE MCMJPEGParser ----------------------------
EXTENDS MJPEGParser

\* Segments: image data, a stuffed 0xff, restart markers after a fill byte, and
\* marker segments of which one has the bytes of a field's end in it.
Segments ==
  { <<Data>>, <<FF, Stuffed>>, <<FF, FF, RST>>,
    <<FF, Segment, 0, 2>>, <<FF, Segment, 0, 4, FF, EOI>> }

Fields == {<<>>} \cup {<<s>> : s \in Segments} \cup {<<s, t>> : s, t \in Segments}
ShortFields == {<<>>, <<<<FF, Stuffed>>>>, <<<<FF, Segment, 0, 4, FF, EOI>>>>}

\* After the images: nothing, padding, and an image without its last byte.
Padding == <<Data, FF, SOI>>

MCStreams ==
  {[images |-> images, cutShort |-> images[1], kept |-> end[1], padding |-> end[2],
    singleField |-> Len(images[1]) = 1] :
     <<images, end>> \in
       UNION {{images} \X {<<0, <<>>>>, <<0, Padding>>, <<Len(ImageBytes(images[1])) - 1, <<>>>>} :
                images \in {<<<<f>>, <<g>>>> : f \in Fields, g \in ShortFields}
                        \cup {<<<<f, g>>, <<g, f>>>> : f \in Fields, g \in ShortFields}}}
=============================================================================
