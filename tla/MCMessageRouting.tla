-------------------------- MODULE MCMessageRouting --------------------------
\* MessageRouting with four values of a byte: NUL, the separator, a letter and the
\* first byte of a login.
EXTENDS MessageRouting

MCBytes == {NUL, AMP, 97, LOGIN}
=============================================================================
