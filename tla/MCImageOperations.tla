------------------------- MODULE MCImageOperations --------------------------
\* Images and volumes with operands that fit them in different ways: the same extents, a
\* single value, a vector for the columns of a matrix, the spectrum of an image.
EXTENDS ImagePromises

Image(shape, type) == [shape |-> shape, dim |-> shape_to_dimension(shape), type |-> type]

MCClients ==
  {<<Image(<<3, 1, 1>>, "FLOAT"), Image(<<3, 1, 1>>, "UINT32"), Image(<<2, 2, 1>>, "FLOAT")>>,
   <<Image(<<2, 2, 1>>, "FLOAT"), Image(<<2, 1, 1>>, "FLOAT"), Image(<<2, 2, 1>>, "FLOAT")>>,
   <<Image(<<2, 2, 1>>, "UINT8"), Image(<<2, 2, 1>>, "FLOAT"), Image(<<2, 2, 1>>, "INT16")>>,
   <<Image(<<3, 2, 1>>, "UINT32"), Image(<<3, 2, 1>>, "FLOAT"), Image(<<3, 2, 1>>, "UINT32")>>,
   <<Image(<<3, 3, 1>>, "FLOAT"), Image(<<4, 3, 1>>, "COMPLEX"), Image(<<3, 3, 1>>, "FLOAT")>>,
   <<Image(<<3, 2, 2>>, "UINT32"), Image(<<3, 2, 2>>, "FLOAT"), Image(<<3, 2, 2>>, "FLOAT")>>,
   <<Image(<<3, 2, 2>>, "FLOAT"), [Image(<<1, 1, 1>>, "FLOAT") EXCEPT !.dim = 3],
     Image(<<3, 2, 2>>, "FLOAT")>>,
   <<Image(<<2, 2, 2>>, "INT16"), Image(<<2, 2, 2>>, "UINT16"), Image(<<4, 2, 2>>, "INT16")>>}

=============================================================================
