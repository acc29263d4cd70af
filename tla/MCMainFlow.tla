----------------------------- MODULE MCMainFlow -----------------------------
\* Small instances of MainFlow: 14-bit sizes, a 4-bit unsigned.  The sizes:
\* no element, too small for the stencil, rectangular, in range, the product
\* with three arrays overflows, the bytes overflow, the volume overflows.
EXTENDS MainFlow

DefaultSizeValue == <<6, 6, 6>>

SocketArgsValue == {-1, 0, 2}

SizeArgsValue ==
    {<<0, 3, 3>>, <<2, 2, 3>>, <<3, 4, 5>>, <<8, 8, 8>>, <<12, 12, 12>>,
     <<16, 16, 16>>, <<32, 32, 32>>, <<SizeMax, 1, 1>>}
=============================================================================
